---- MODULE Spec2Model ----
(***************************************************************************)
(* axum-sql-viewer: the database introspection and dynamic query engine.   *)
(*                                                                         *)
(* The two providers (SqliteProvider, PostgresProvider) are stateless      *)
(* facades over a connection pool.  The state of the model is the provider *)
(* variant, the build mode, the live database, and the record of the last  *)
(* operation: its input (call), the statements it handed to the backend    *)
(* (sent) and what it returned (result).                                   *)
(*                                                                         *)
(* Text (String) is a sequence of one-character strings, so that quoting,  *)
(* formatting and prefix tests are computed character by character.        *)
(* u64 values are three limbs in base 10^9 (most significant first), so    *)
(* that the full unsigned 64-bit range, the wrap at 2^64 and the cast to   *)
(* i64 are exact.                                                          *)
(***************************************************************************)
EXTENDS Integers, Sequences, FiniteSets, TLC

VARIABLES backend, overflow_checks, db, call, sent, result

vars == <<backend, overflow_checks, db, call, sent, result>>

Backends == {"sqlite", "postgres"}

(***************************************************************************)
(* Bounds of the model.                                                    *)
(***************************************************************************)
MaxIdentLen == 3

(***************************************************************************)
(* Text helpers.                                                           *)
(***************************************************************************)
DQ == "\""

RECURSIVE Concat(_)
Concat(parts) ==
    IF parts = <<>> THEN <<>> ELSE Head(parts) \o Concat(Tail(parts))

\* [T]::join(sep)
RECURSIVE Join(_, _)
Join(parts, sep) ==
    IF parts = <<>> THEN <<>>
    ELSE IF Len(parts) = 1 THEN parts[1]
    ELSE parts[1] \o sep \o Join(Tail(parts), sep)

\* str::contains(char)
Contains(text, ch) == \E i \in 1..Len(text) : text[i] = ch

\* str::starts_with(prefix)
StartsWith(text, prefix) ==
    /\ Len(prefix) <= Len(text)
    /\ SubSeq(text, 1, Len(prefix)) = prefix

\* text contains part as a contiguous substring
ContainsText(text, part) ==
    \E i \in 0..(Len(text) - Len(part)) : SubSeq(text, i + 1, i + Len(part)) = part

LowerCase == <<"a", "b", "c", "d", "e", "f", "g", "h", "i", "j", "k", "l", "m", "n", "o", "p", "q", "r", "s", "t", "u", "v", "w", "x", "y", "z">>

UpperCase == <<"A", "B", "C", "D", "E", "F", "G", "H", "I", "J", "K", "L", "M", "N", "O", "P", "Q", "R", "S", "T", "U", "V", "W", "X", "Y", "Z">>

\* str::to_uppercase, on ASCII text
ToUppercase(text) ==
    [i \in 1..Len(text) |->
        IF \E k \in 1..Len(LowerCase) : LowerCase[k] = text[i]
        THEN UpperCase[CHOOSE k \in 1..Len(LowerCase) : LowerCase[k] = text[i]]
        ELSE text[i]]

RECURSIVE SeqsUpTo(_, _)
SeqsUpTo(chars, n) ==
    IF n = 0 THEN {<<>>}
    ELSE LET shorter == SeqsUpTo(chars, n - 1)
         IN shorter \cup {Append(s, c) : s \in shorter, c \in chars}

\* the iteration orders a map with these keys can have: every sequence that
\* lists each key exactly once
Orders(keys) ==
    {ord \in [1..Cardinality(keys) -> keys] : \A k \in keys : \E i \in DOMAIN ord : ord[i] = k}

(***************************************************************************)
(* u64 / i64 arithmetic on limbs.                                          *)
(***************************************************************************)
LimbBase == 10 ^ 9

Big(n) == <<0, 0, n>>

U64_MAX == <<18, 446744073, 709551615>>
TWO_64 == <<18, 446744073, 709551616>>
TWO_63 == <<9, 223372036, 854775808>>
I64_MAX == <<9, 223372036, 854775807>>

BigLess(a, b) ==
    \/ a[1] < b[1]
    \/ a[1] = b[1] /\ a[2] < b[2]
    \/ a[1] = b[1] /\ a[2] = b[2] /\ a[3] < b[3]

BigAdd(a, b) ==
    LET s3 == a[3] + b[3]
        s2 == a[2] + b[2] + (s3 \div LimbBase)
        s1 == a[1] + b[1] + (s2 \div LimbBase)
    IN <<s1, s2 % LimbBase, s3 % LimbBase>>

\* a - b for a >= b
BigSub(a, b) ==
    LET d3 == a[3] - b[3]
        b3 == IF d3 < 0 THEN 1 ELSE 0
        d2 == a[2] - b[2] - b3
        b2 == IF d2 < 0 THEN 1 ELSE 0
        d1 == a[1] - b[1] - b2
    IN <<d1, d2 + b2 * LimbBase, d3 + b3 * LimbBase>>

\* u64::min
BigMin(a, b) == IF BigLess(b, a) THEN b ELSE a

\* the value of a u64 known to be below 10^9
Small(a) == a[3]

IsSmall(a) == a[1] = 0 /\ a[2] = 0

Digits == <<"0", "1", "2", "3", "4", "5", "6", "7", "8", "9">>

RECURSIVE Decimal(_)
Decimal(n) ==
    IF n < 10 THEN <<Digits[n + 1]>>
    ELSE Decimal(n \div 10) \o <<Digits[(n % 10) + 1]>>

Padded(n) ==
    LET d == Decimal(n)
    IN [i \in 1..(9 - Len(d)) |-> "0"] \o d

\* Display for u64 (format!("{}", n))
U64Display(a) ==
    IF a[1] > 0 THEN Decimal(a[1]) \o Padded(a[2]) \o Padded(a[3])
    ELSE IF a[2] > 0 THEN Decimal(a[2]) \o Padded(a[3])
    ELSE Decimal(a[3])

\* u64 + u64: with overflow checks (debug build) an overflowing sum panics,
\* without them (release build) it wraps modulo 2^64
AddOverflows(a, b) == BigLess(U64_MAX, BigAdd(a, b))

WrappingAdd(a, b) ==
    LET s == BigAdd(a, b)
    IN IF BigLess(U64_MAX, s) THEN BigSub(s, TWO_64) ELSE s

\* u64 as i64: the same 64 bits read as two's complement
AsI64(a) ==
    IF BigLess(a, TWO_63) THEN [neg |-> FALSE, mag |-> a]
    ELSE [neg |-> TRUE, mag |-> BigSub(TWO_64, a)]

\* Option<T>
None == <<>>

Some(x) == <<x>>

(***************************************************************************)
(* String literals of the source.                                          *)
(***************************************************************************)
S_WHERE == <<" ", "W", "H", "E", "R", "E", " ">>

S_AND == <<" ", "A", "N", "D", " ">>

S_LIKE_Q == <<" ", "L", "I", "K", "E", " ", "?">>

S_EQ_Q == <<" ", "=", " ", "?">>

S_LIKE_DOLLAR == <<" ", "L", "I", "K", "E", " ", "$">>

S_EQ_DOLLAR == <<" ", "=", " ", "$">>

S_ORDER_BY == <<" ", "O", "R", "D", "E", "R", " ", "B", "Y", " ">>

S_ASC == <<"A", "S", "C">>

S_DESC == <<"D", "E", "S", "C">>

S_SPACE == <<" ">>

S_SQLITE_COUNT == <<"S", "E", "L", "E", "C", "T", " ", "C", "O", "U", "N", "T", "(", "*", ")", " ", "F", "R", "O", "M", " ">>

S_PG_COUNT == <<"S", "E", "L", "E", "C", "T", " ", "C", "O", "U", "N", "T", "(", "*", ")", " ", "a", "s", " ", "c", "o", "u", "n", "t", " ", "F", "R", "O", "M", " ">>

S_SELECT_FROM == <<"S", "E", "L", "E", "C", "T", " ", "*", " ", "F", "R", "O", "M", " ">>

S_LIMIT_OFFSET_Q == <<" ", "L", "I", "M", "I", "T", " ", "?", " ", "O", "F", "F", "S", "E", "T", " ", "?">>

S_LIMIT == <<" ", "L", "I", "M", "I", "T", " ">>

S_OFFSET == <<" ", "O", "F", "F", "S", "E", "T", " ">>

(***************************************************************************)
(* Identifier quoting.                                                     *)
(***************************************************************************)
\* str::replace('"', "\"\"")
RECURSIVE ReplaceQuotes(_)
ReplaceQuotes(text) ==
    IF text = <<>> THEN <<>>
    ELSE (IF Head(text) = DQ THEN <<DQ, DQ>> ELSE <<Head(text)>>) \o ReplaceQuotes(Tail(text))

\* mutant: the embedded quotes are not doubled
Sqlite_quote_identifier_NoEscape(identifier) == <<DQ>> \o identifier \o <<DQ>>

Sqlite_quote_identifier(identifier) == <<DQ>> \o ReplaceQuotes(identifier) \o <<DQ>>

Postgres_quote_identifier(identifier) == <<DQ>> \o ReplaceQuotes(identifier) \o <<DQ>>

quote_identifier(b, identifier) ==
    IF b = "sqlite" THEN Sqlite_quote_identifier(identifier)
    ELSE Postgres_quote_identifier(identifier)

(***************************************************************************)
(* Query builder.  filters is HashMap<String, String>: a function from    *)
(* column names to filter values; ord is the order in which the `for` loop *)
(* visits its entries.  clause and values are the returned pair;          *)
(* conditions is what the clause text asks of the backend.                 *)
(***************************************************************************)
\* mutant: LIKE is chosen only when the value starts with '%'
Sqlite_conditions_LeadingPercent(filters, ord) ==
    [i \in 1..Len(ord) |->
        LET column == ord[i]
            filter_value == filters[column]
            quoted_column == <<DQ>> \o ReplaceQuotes(column) \o <<DQ>>
        IN IF filter_value # <<>> /\ filter_value[1] = "%"
           THEN [column |-> column, like |-> TRUE, text |-> quoted_column \o S_LIKE_Q]
           ELSE [column |-> column, like |-> FALSE, text |-> quoted_column \o S_EQ_Q]]

Sqlite_conditions(filters, ord) ==
    [i \in 1..Len(ord) |->
        LET column == ord[i]
            filter_value == filters[column]
            quoted_column == Sqlite_quote_identifier(column)
        IN IF Contains(filter_value, "%")
           THEN [column |-> column, like |-> TRUE, text |-> quoted_column \o S_LIKE_Q]
           ELSE [column |-> column, like |-> FALSE, text |-> quoted_column \o S_EQ_Q]]

Sqlite_build_where_clause(filters, ord) ==
    IF DOMAIN filters = {} THEN [clause |-> <<>>, values |-> <<>>, conditions |-> <<>>]
    ELSE LET conditions == Sqlite_conditions(filters, ord)
         IN [clause |-> S_WHERE \o Join([i \in 1..Len(ord) |-> conditions[i].text], S_AND),
             values |-> [i \in 1..Len(ord) |-> filters[ord[i]]],
             conditions |-> conditions]

Postgres_conditions(filters, ord, parameter_offset) ==
    [i \in 1..Len(ord) |->
        LET column == ord[i]
            filter_value == filters[column]
            quoted_column == Postgres_quote_identifier(column)
            param_index == parameter_offset + (i - 1)
        IN IF Contains(filter_value, "%")
           THEN [column |-> column, like |-> TRUE,
                 text |-> quoted_column \o S_LIKE_DOLLAR \o Decimal(param_index)]
           ELSE [column |-> column, like |-> FALSE,
                 text |-> quoted_column \o S_EQ_DOLLAR \o Decimal(param_index)]]

Postgres_build_where_clause(filters, ord, parameter_offset) ==
    IF DOMAIN filters = {} THEN [clause |-> <<>>, values |-> <<>>, conditions |-> <<>>]
    ELSE LET conditions == Postgres_conditions(filters, ord, parameter_offset)
         IN [clause |-> S_WHERE \o Join([i \in 1..Len(ord) |-> conditions[i].text], S_AND),
             values |-> [i \in 1..Len(ord) |-> filters[ord[i]]],
             conditions |-> conditions]

\* clause is the returned String; order is what that text asks of the backend
Sqlite_build_order_clause(sort_by, sort_order) ==
    IF sort_by # None /\ sort_order # None
    THEN LET quoted_column == Sqlite_quote_identifier(sort_by[1])
             direction == IF sort_order[1] = "Ascending" THEN S_ASC ELSE S_DESC
         IN [clause |-> S_ORDER_BY \o quoted_column \o S_SPACE \o direction,
             order |-> Some([column |-> sort_by[1], desc |-> sort_order[1] # "Ascending"])]
    ELSE [clause |-> <<>>, order |-> None]

(***************************************************************************)
(* The live database and the backend's evaluation of a statement.          *)
(* db.tables maps the name of each table or view to its declaration (type, *)
(* schema, columns, keys, indexes), whether the connected user can read    *)
(* it, and its number of rows; row i of a table                            *)
(* has id = i and the name and city below.  A statement is the text and    *)
(* the bound parameters the provider hands over, together with what the    *)
(* backend reads in that text (table, conditions, order, limit, offset).   *)
(***************************************************************************)
Users == <<"u", "s", "e", "r", "s">>

Ghost == <<"g", "h", "o", "s", "t">>

Id == <<"i", "d">>

Name == <<"n", "a", "m", "e">>

City == <<"c", "i", "t", "y">>

Odd == <<"o", DQ, "d">>

Bogus == <<"b", "o", "g", "u", "s">>

TableColumns == <<Id, Name, City>>

T_INTEGER == <<"I", "N", "T", "E", "G", "E", "R">>

T_TEXT == <<"T", "E", "X", "T">>

\* in ascending order
RowNames == <<(<<"a", "b">>), (<<"a", "c">>), (<<"z">>)>>

RowCities == <<(<<"a", "b">>), (<<"z">>)>>

Cell(i, column) ==
    IF column = Name THEN RowNames[(i % 3) + 1]
    ELSE IF column = City THEN RowCities[(i % 2) + 1]
    ELSE Decimal(i)

KnownColumn(column) == \E k \in 1..Len(TableColumns) : TableColumns[k] = column

\* text LIKE pattern: % matches any run of characters, _ any one character
RECURSIVE Like(_, _)
Like(pattern, text) ==
    IF pattern = <<>> THEN text = <<>>
    ELSE IF Head(pattern) = "%"
         THEN Like(Tail(pattern), text) \/ (text # <<>> /\ Like(pattern, Tail(text)))
    ELSE IF Head(pattern) = "_"
         THEN text # <<>> /\ Like(Tail(pattern), Tail(text))
    ELSE text # <<>> /\ Head(text) = Head(pattern) /\ Like(Tail(pattern), Tail(text))

RowMatches(i, conditions, values) ==
    \A k \in 1..Len(conditions) :
        IF conditions[k].like
        THEN Like(values[k], Cell(i, conditions[k].column))
        ELSE Cell(i, conditions[k].column) = values[k]

\* name and city of row i depend on i modulo RowPeriod only
RowPeriod == 2 * 3

PeriodicConditions(conditions) ==
    \A k \in 1..Len(conditions) : conditions[k].column \in {Name, City}

\* the ids of the rows the WHERE clause keeps, in table order
Matching(d, statement) ==
    LET Test(i) == RowMatches(i, statement.conditions, statement.params)
        kept == {c \in 1..RowPeriod : Test(c)}
        Fast(i) == ((i - 1) % RowPeriod) + 1 \in kept
        ids == [i \in 1..d.tables[statement.table].rows |-> i]
    IN IF PeriodicConditions(statement.conditions)
       THEN SelectSeq(ids, Fast)
       ELSE SelectSeq(ids, Test)

Reverse(seq) == [i \in 1..Len(seq) |-> seq[Len(seq) + 1 - i]]

\* ORDER BY column ASC|DESC; rows with equal keys stay in table order
SortedBy(ids, order) ==
    LET keys == IF order.column = Name THEN RowNames
                ELSE IF order.column = City THEN RowCities ELSE <<>>
        KeyAt(k) == keys[IF order.desc THEN Len(keys) + 1 - k ELSE k]
        Group(k) == LET Test(i) == Cell(i, order.column) = KeyAt(k) IN SelectSeq(ids, Test)
    IN IF order.column = Id THEN (IF order.desc THEN Reverse(ids) ELSE ids)
       ELSE Concat([k \in 1..Len(keys) |-> Group(k)])

\* LIMIT / OFFSET as the backend applies them to an i64: SQLite reads a
\* negative OFFSET as 0 and a negative LIMIT as no limit
Slice(ids, limit, offset) ==
    LET skip == IF offset.neg THEN 0
                ELSE IF IsSmall(offset.mag) /\ Small(offset.mag) < Len(ids)
                     THEN Small(offset.mag) ELSE Len(ids)
        take == IF limit.neg \/ ~IsSmall(limit.mag) THEN Len(ids) ELSE Small(limit.mag)
        last == IF skip + take < Len(ids) THEN skip + take ELSE Len(ids)
    IN SubSeq(ids, skip + 1, last)

MSG_NO_SUCH_TABLE == <<"n", "o", " ", "s", "u", "c", "h", " ", "t", "a", "b", "l", "e">>

MSG_NO_SUCH_COLUMN == <<"n", "o", " ", "s", "u", "c", "h", " ", "c", "o", "l", "u", "m", "n">>

MSG_NOT_READABLE == <<"p", "e", "r", "m", "i", "s", "s", "i", "o", "n", " ", "d", "e", "n", "i", "e", "d">>

MSG_OUT_OF_RANGE == <<"b", "i", "g", "i", "n", "t", " ", "o", "u", "t", " ", "o", "f", " ", "r", "a", "n", "g", "e">>

\* the SQL-level error the backend raises for the statement, if any
StatementError(b, d, statement) ==
    IF statement.table \notin DOMAIN d.tables THEN Some(MSG_NO_SUCH_TABLE)
    ELSE IF ~d.tables[statement.table].readable THEN Some(MSG_NOT_READABLE)
    ELSE IF \E k \in 1..Len(statement.conditions) : ~KnownColumn(statement.conditions[k].column)
         THEN Some(MSG_NO_SUCH_COLUMN)
    ELSE IF statement.kind = "select" /\ statement.order # None
            /\ ~KnownColumn(statement.order[1].column)
         THEN Some(MSG_NO_SUCH_COLUMN)
    ELSE IF statement.kind = "select" /\ b = "postgres"
            /\ (BigLess(I64_MAX, statement.offset.mag) \/ BigLess(I64_MAX, statement.limit.mag))
         THEN Some(MSG_OUT_OF_RANGE)
    ELSE None

\* fetch_one of a COUNT(*) statement
BackendCount(b, d, statement) ==
    LET error == StatementError(b, d, statement)
    IN IF error # None THEN [ok |-> FALSE, message |-> error[1]]
       ELSE [ok |-> TRUE, count |-> Len(Matching(d, statement))]

\* fetch_all of a SELECT * statement
BackendSelect(b, d, statement) ==
    LET error == StatementError(b, d, statement)
        kept == Matching(d, statement)
        sorted == IF statement.order = None THEN kept ELSE SortedBy(kept, statement.order[1])
    IN IF error # None THEN [ok |-> FALSE, message |-> error[1]]
       ELSE [ok |-> TRUE, rows |-> Slice(sorted, statement.limit, statement.offset)]

(***************************************************************************)
(* Results and errors.                                                     *)
(***************************************************************************)
Ok(value) == [kind |-> "ok", value |-> value]

Err(type, arg) == [kind |-> "err", error |-> [type |-> type, arg |-> arg]]

\* the thread panicked: the caller gets no value
Panic == [kind |-> "panic"]

\* impl From<sqlx::Error> for DatabaseError
From_sqlx_Error(message) == Err("Query", message)

MAX_LIMIT == 500

PG_MAX_LIMIT == 500

HANDLER_MAX_LIMIT == 500

(***************************************************************************)
(* Schema discovery.  A table of the database is declared with its columns *)
(* in ordinal order, each with the position it has in the primary key (pk, *)
(* 1-based, 0 outside the key), its foreign keys, and the indexes the       *)
(* backend lists for it.  An index of origin "pk" backs the primary key     *)
(* constraint and carries the constraint's name; origin "c" is a CREATE     *)
(* INDEX.                                                                   *)
(***************************************************************************)
S_PRAGMA_TABLE_INFO == <<"P", "R", "A", "G", "M", "A", " ", "t", "a", "b", "l", "e", "_", "i", "n", "f", "o", "(">>

S_PRAGMA_FOREIGN_KEY_LIST == <<"P", "R", "A", "G", "M", "A", " ", "f", "o", "r", "e", "i", "g", "n", "_", "k", "e", "y", "_", "l", "i", "s", "t", "(">>

S_PRAGMA_INDEX_LIST == <<"P", "R", "A", "G", "M", "A", " ", "i", "n", "d", "e", "x", "_", "l", "i", "s", "t", "(">>

S_PRAGMA_INDEX_INFO == <<"P", "R", "A", "G", "M", "A", " ", "i", "n", "d", "e", "x", "_", "i", "n", "f", "o", "(">>

S_CLOSE == <<")">>

S_CREATE == <<"C", "R", "E", "A", "T", "E", " ">>

S_UNIQUE_SPACE == <<"U", "N", "I", "Q", "U", "E", " ">>

S_INDEX == <<"I", "N", "D", "E", "X", " ">>

S_ON == <<" ", "O", "N", " ">>

S_UNIQUE == <<"U", "N", "I", "Q", "U", "E">>

S_YES == <<"Y", "E", "S">>

S_NO == <<"N", "O">>

S_PUBLIC == <<"p", "u", "b", "l", "i", "c">>

S_MAIN == <<"m", "a", "i", "n">>

SQLITE_PATTERN == <<"s", "q", "l", "i", "t", "e", "_", "%">>

\* SELECT 1 FROM sqlite_master WHERE type='table' AND name = ? AND name NOT
\* LIKE 'sqlite_%'
Backend_table_exists(d, table) ==
    /\ table \in DOMAIN d.tables
    /\ d.tables[table].type = "table"
    /\ ~Like(SQLITE_PATTERN, table)

ColumnNames(columns) == [k \in 1..Len(columns) |-> columns[k].name]

InSeq(x, seq) == \E k \in 1..Len(seq) : seq[k] = x

\* the names of the key's columns, by position in the key
KeyColumns(declared) ==
    LET length == Cardinality({k \in 1..Len(declared) : declared[k].pk > 0})
    IN [position \in 1..length |->
           declared[CHOOSE k \in 1..Len(declared) : declared[k].pk = position].name]

\* PRAGMA table_info(table): cid, name, type, notnull, dflt_value, pk
Backend_table_info(d, table) ==
    IF table \in DOMAIN d.tables THEN d.tables[table].columns ELSE <<>>

\* PRAGMA foreign_key_list(table): from, table, to
Backend_foreign_key_list(d, table) == d.tables[table].foreign_keys

\* PRAGMA index_list(table): name, unique, origin
Backend_index_list(d, table) == d.tables[table].indexes

\* PRAGMA index_info(index): the names of the index's columns
Backend_index_info(d, index_name) ==
    LET owners == {t \in DOMAIN d.tables : \E k \in 1..Len(d.tables[t].indexes) :
                                              d.tables[t].indexes[k].name = index_name}
    IN IF owners = {} THEN <<>>
       ELSE LET listed == d.tables[CHOOSE t \in owners : TRUE].indexes
            IN listed[CHOOSE k \in 1..Len(listed) : listed[k].name = index_name].columns

\* information_schema.columns of the table WHERE table_schema = 'public',
\* ORDER BY ordinal_position
Backend_columns(d, table) ==
    IF table \in DOMAIN d.tables /\ d.tables[table].schema = S_PUBLIC
    THEN LET declared == d.tables[table].columns
         IN [k \in 1..Len(declared) |->
                [column_name |-> declared[k].name,
                 data_type |-> declared[k].type,
                 is_nullable |-> IF declared[k].notnull THEN S_NO ELSE S_YES,
                 column_default |-> declared[k].dflt_value]]
    ELSE <<>>

\* key_column_usage of the table's PRIMARY KEY constraint, ORDER BY
\* ordinal_position
Backend_primary_key(d, table) == KeyColumns(d.tables[table].columns)

\* the FOREIGN KEY constraints of the table
Backend_foreign_keys(d, table) ==
    LET declared == d.tables[table].foreign_keys
    IN [k \in 1..Len(declared) |->
           [column_name |-> declared[k].from,
            references_table |-> declared[k].table,
            references_column |-> declared[k].to]]

\* pg_indexes.indexdef
IndexDefinition(index, table) ==
    S_CREATE \o (IF index.unique THEN S_UNIQUE_SPACE ELSE <<>>) \o S_INDEX
        \o index.name \o S_ON \o table

\* pg_indexes of the table WHERE indexname NOT IN (the names of the table's
\* PRIMARY KEY constraints)
Backend_indexes(d, table) ==
    LET listed == d.tables[table].indexes
        constraint_names == {listed[k].name : k \in {j \in 1..Len(listed) : listed[j].origin = "pk"}}
        kept == SelectSeq(listed, LAMBDA index : index.name \notin constraint_names)
    IN [k \in 1..Len(kept) |->
           [index_name |-> kept[k].name,
            index_definition |-> IndexDefinition(kept[k], table)]]

\* for row in column_rows { ... columns.push(ColumnInfo { .. }) }
Sqlite_columns(column_rows) ==
    [k \in 1..Len(column_rows) |->
        [name |-> column_rows[k].name,
         data_type |-> column_rows[k].type,
         nullable |-> ~column_rows[k].notnull,
         default_value |-> column_rows[k].dflt_value,
         is_primary_key |-> column_rows[k].pk > 0]]

\* primary_key_columns.push((primary_key, name.clone())), in row order
Sqlite_primary_key_columns(column_rows) ==
    LET keyed == SelectSeq(column_rows, LAMBDA row : row.pk > 0)
    IN [k \in 1..Len(keyed) |-> <<keyed[k].pk, keyed[k].name>>]

\* mutant: the key columns stay in the order of the table's columns
Sqlite_sort_by_key_RowOrder(pairs) == pairs

\* primary_key_columns.sort_by_key(|(order, _)| *order): a stable sort
RECURSIVE Sqlite_sort_by_key(_)
Sqlite_sort_by_key(pairs) ==
    IF pairs = <<>> THEN <<>>
    ELSE LET sorted == Sqlite_sort_by_key(SubSeq(pairs, 1, Len(pairs) - 1))
             pair == pairs[Len(pairs)]
             before == Cardinality({k \in 1..Len(sorted) : sorted[k][1] <= pair[1]})
         IN SubSeq(sorted, 1, before) \o <<pair>> \o SubSeq(sorted, before + 1, Len(sorted))

\* mutant: an empty key is reported as Some of an empty list
Sqlite_primary_key_SomeEmpty(primary_key_columns) ==
    Some([k \in 1..Len(primary_key_columns) |-> primary_key_columns[k][2]])

Sqlite_primary_key(primary_key_columns) ==
    IF primary_key_columns = <<>> THEN None
    ELSE Some([k \in 1..Len(primary_key_columns) |-> primary_key_columns[k][2]])

Sqlite_foreign_keys(foreign_key_rows) ==
    [k \in 1..Len(foreign_key_rows) |->
        [column |-> foreign_key_rows[k].from,
         references_table |-> foreign_key_rows[k].table,
         references_column |-> foreign_key_rows[k].to]]

Sqlite_pragma(kind, prefix, name) ==
    [kind |-> kind, table |-> name, text |-> prefix \o Sqlite_quote_identifier(name) \o S_CLOSE]

\* for row in index_rows { ... indexes.push(IndexInfo { .. }) }
Sqlite_indexes(d, index_rows) ==
    [k \in 1..Len(index_rows) |->
        [name |-> index_rows[k].name,
         columns |-> Backend_index_info(d, index_rows[k].name),
         unique |-> index_rows[k].unique]]

\* mutant: the emptiness of table_info is not checked
Sqlite_get_table_schema_NoCheck(d, table) ==
    [sent |-> <<Sqlite_pragma("table_info", S_PRAGMA_TABLE_INFO, table),
                Sqlite_pragma("foreign_key_list", S_PRAGMA_FOREIGN_KEY_LIST, table),
                Sqlite_pragma("index_list", S_PRAGMA_INDEX_LIST, table)>>,
     result |-> Ok([name |-> table,
                    columns |-> Sqlite_columns(Backend_table_info(d, table)),
                    primary_key |-> Sqlite_primary_key(
                        Sqlite_sort_by_key(Sqlite_primary_key_columns(Backend_table_info(d, table)))),
                    foreign_keys |-> <<>>,
                    indexes |-> <<>>])]

Sqlite_get_table_schema(d, table) ==
    LET table_info == Sqlite_pragma("table_info", S_PRAGMA_TABLE_INFO, table)
        foreign_key_list == Sqlite_pragma("foreign_key_list", S_PRAGMA_FOREIGN_KEY_LIST, table)
        index_list == Sqlite_pragma("index_list", S_PRAGMA_INDEX_LIST, table)
        column_rows == Backend_table_info(d, table)
    IN IF column_rows = <<>>
       THEN [sent |-> <<table_info>>, result |-> Err("TableNotFound", table)]
       ELSE LET index_rows == Backend_index_list(d, table)
                index_info == [k \in 1..Len(index_rows) |->
                                  Sqlite_pragma("index_info", S_PRAGMA_INDEX_INFO, index_rows[k].name)]
            IN [sent |-> <<table_info, foreign_key_list, index_list>> \o index_info,
                result |-> Ok([name |-> table,
                               columns |-> Sqlite_columns(column_rows),
                               primary_key |-> Sqlite_primary_key(
                                   Sqlite_sort_by_key(Sqlite_primary_key_columns(column_rows))),
                               foreign_keys |-> Sqlite_foreign_keys(Backend_foreign_key_list(d, table)),
                               indexes |-> Sqlite_indexes(d, index_rows)])]

Postgres_primary_key(primary_key_columns) ==
    IF primary_key_columns = <<>> THEN None ELSE Some(primary_key_columns)

Postgres_foreign_keys(fk_rows) ==
    [k \in 1..Len(fk_rows) |->
        [column |-> fk_rows[k].column_name,
         references_table |-> fk_rows[k].references_table,
         references_column |-> fk_rows[k].references_column]]

Postgres_indexes(index_rows) ==
    [k \in 1..Len(index_rows) |->
        [name |-> index_rows[k].index_name,
         columns |-> <<>>,
         unique |-> ContainsText(ToUppercase(index_rows[k].index_definition), S_UNIQUE)]]

Postgres_columns(column_rows, primary_key_columns) ==
    [k \in 1..Len(column_rows) |->
        [name |-> column_rows[k].column_name,
         data_type |-> column_rows[k].data_type,
         nullable |-> column_rows[k].is_nullable = S_YES,
         default_value |-> column_rows[k].column_default,
         is_primary_key |-> InSeq(column_rows[k].column_name, primary_key_columns)]]

Postgres_get_table_schema(d, table) ==
    LET column_query == [kind |-> "columns", table |-> table, params |-> <<table>>]
        pk_query == [kind |-> "primary_key", table |-> table, params |-> <<table>>]
        fk_query == [kind |-> "foreign_keys", table |-> table, params |-> <<table>>]
        index_query == [kind |-> "indexes", table |-> table, params |-> <<table>>]
        column_rows == Backend_columns(d, table)
    IN IF column_rows = <<>>
       THEN [sent |-> <<column_query>>, result |-> Err("TableNotFound", table)]
       ELSE LET primary_key_columns == Backend_primary_key(d, table)
            IN [sent |-> <<column_query, pk_query, fk_query, index_query>>,
                result |-> Ok([name |-> table,
                               columns |-> Postgres_columns(column_rows, primary_key_columns),
                               primary_key |-> Postgres_primary_key(primary_key_columns),
                               foreign_keys |-> Postgres_foreign_keys(Backend_foreign_keys(d, table)),
                               indexes |-> Postgres_indexes(Backend_indexes(d, table))])]

get_table_schema(b, d, table) ==
    IF b = "sqlite" THEN Sqlite_get_table_schema(d, table)
    ELSE Postgres_get_table_schema(d, table)

(***************************************************************************)
(* get_rows and count_rows.  Each operator returns the statements handed   *)
(* to the backend, in order, and the returned value.                       *)
(***************************************************************************)
\* query.offset + (json_rows.len() as u64) < total
HasMore(oc, offset, len, total) ==
    IF AddOverflows(offset, Big(len))
    THEN IF oc THEN Panic ELSE Ok(BigLess(WrappingAdd(offset, Big(len)), total))
    ELSE Ok(BigLess(BigAdd(offset, Big(len)), total))

\* mutant: the provider does not cap the limit
Sqlite_effective_limit_NoCap(limit) == limit

Sqlite_effective_limit(limit) == BigMin(limit, Big(MAX_LIMIT))

Sqlite_count_statement(table, where) ==
    [kind |-> "count",
     text |-> S_SQLITE_COUNT \o Sqlite_quote_identifier(table) \o where.clause,
     params |-> where.values,
     table |-> table,
     conditions |-> where.conditions]

Sqlite_select_statement(table, where, order, limit, offset) ==
    [kind |-> "select",
     text |-> S_SELECT_FROM \o Sqlite_quote_identifier(table) \o where.clause
                  \o order.clause \o S_LIMIT_OFFSET_Q,
     params |-> where.values \o <<AsI64(limit), AsI64(offset)>>,
     table |-> table,
     conditions |-> where.conditions,
     order |-> order.order,
     limit |-> AsI64(limit),
     offset |-> AsI64(offset)]

Sqlite_exists_statement(table) == [kind |-> "exists", table |-> table, params |-> <<table>>]

Sqlite_get_rows(oc, d, table, query, ord) ==
    LET exists == Sqlite_exists_statement(table)
        limit == Sqlite_effective_limit(query.limit)
        where == Sqlite_build_where_clause(query.filters, ord)
        order == Sqlite_build_order_clause(query.sort_by, query.sort_order)
        count_statement == Sqlite_count_statement(table, where)
        counted == BackendCount("sqlite", d, count_statement)
        total == Big(counted.count)
        select_statement == Sqlite_select_statement(table, where, order, limit, query.offset)
        fetched == BackendSelect("sqlite", d, select_statement)
        rows == fetched.rows
        schema == Sqlite_get_table_schema(d, table)
        columns == IF rows # <<>> THEN TableColumns ELSE ColumnNames(schema.result.value.columns)
        statements == <<exists, count_statement, select_statement>>
                          \o (IF rows # <<>> THEN <<>> ELSE schema.sent)
        has_more == HasMore(oc, query.offset, Len(rows), total)
    IN IF ~Backend_table_exists(d, table)
       THEN [sent |-> <<exists>>, result |-> Err("TableNotFound", table)]
       ELSE IF ~counted.ok
       THEN [sent |-> <<exists, count_statement>>, result |-> From_sqlx_Error(counted.message)]
       ELSE IF ~fetched.ok
       THEN [sent |-> <<exists, count_statement, select_statement>>,
             result |-> From_sqlx_Error(fetched.message)]
       ELSE IF rows = <<>> /\ schema.result.kind = "err"
       THEN [sent |-> statements, result |-> schema.result]
       ELSE IF has_more.kind = "panic"
       THEN [sent |-> statements, result |-> Panic]
       ELSE [sent |-> statements,
             result |-> Ok([rows |-> rows, columns |-> columns, total |-> total,
                            offset |-> query.offset, limit |-> limit,
                            has_more |-> has_more.value])]

\* mutant: count_rows counts the whole table, whatever the filters
Sqlite_count_rows_NoFilter(d, table, query, ord) ==
    LET exists == [kind |-> "exists", table |-> table, params |-> <<table>>]
        count_statement ==
            [kind |-> "count",
             text |-> S_SQLITE_COUNT \o <<DQ>> \o ReplaceQuotes(table) \o <<DQ>>,
             params |-> <<>>,
             table |-> table,
             conditions |-> <<>>]
        counted == BackendCount("sqlite", d, count_statement)
    IN IF ~Backend_table_exists(d, table)
       THEN [sent |-> <<exists>>, result |-> Err("TableNotFound", table)]
       ELSE IF ~counted.ok
       THEN [sent |-> <<exists, count_statement>>, result |-> From_sqlx_Error(counted.message)]
       ELSE [sent |-> <<exists, count_statement>>, result |-> Ok([count |-> Big(counted.count)])]

Sqlite_count_rows(d, table, query, ord) ==
    LET exists == Sqlite_exists_statement(table)
        where == Sqlite_build_where_clause(query.filters, ord)
        count_statement == Sqlite_count_statement(table, where)
        counted == BackendCount("sqlite", d, count_statement)
    IN IF ~Backend_table_exists(d, table)
       THEN [sent |-> <<exists>>, result |-> Err("TableNotFound", table)]
       ELSE IF ~counted.ok
       THEN [sent |-> <<exists, count_statement>>, result |-> From_sqlx_Error(counted.message)]
       ELSE [sent |-> <<exists, count_statement>>, result |-> Ok([count |-> Big(counted.count)])]

Postgres_count_rows(d, table, query, ord) ==
    LET where == Postgres_build_where_clause(query.filters, ord, 1)
        count_statement ==
            [kind |-> "count",
             text |-> S_PG_COUNT \o Postgres_quote_identifier(table) \o where.clause,
             params |-> where.values,
             table |-> table,
             conditions |-> where.conditions]
        counted == BackendCount("postgres", d, count_statement)
    IN IF ~counted.ok
       THEN [sent |-> <<count_statement>>, result |-> From_sqlx_Error(counted.message)]
       ELSE [sent |-> <<count_statement>>, result |-> Ok([count |-> Big(counted.count)])]

Postgres_effective_limit(limit) == BigMin(limit, Big(PG_MAX_LIMIT))

\* the ORDER BY part of get_rows, once sort_by is known to name a column
Postgres_order_clause(sort_by, sort_order) ==
    IF sort_by # None
    THEN LET quoted_sort == Postgres_quote_identifier(sort_by[1])
             descending == sort_order # None /\ sort_order[1] = "Descending"
             sort_direction == IF descending THEN S_DESC ELSE S_ASC
         IN [clause |-> S_ORDER_BY \o quoted_sort \o S_SPACE \o sort_direction,
             order |-> Some([column |-> sort_by[1], desc |-> descending])]
    ELSE [clause |-> <<>>, order |-> None]

Postgres_sort_column_valid(sort_by, column_names) ==
    sort_by # None => \E k \in 1..Len(column_names) : column_names[k] = sort_by[1]

Postgres_select_statement(table, where, order, limit, offset) ==
    [kind |-> "select",
     text |-> S_SELECT_FROM \o Postgres_quote_identifier(table) \o where.clause
                  \o order.clause
                  \o S_LIMIT \o U64Display(limit) \o S_OFFSET \o U64Display(offset),
     params |-> where.values,
     table |-> table,
     conditions |-> where.conditions,
     order |-> order.order,
     limit |-> [neg |-> FALSE, mag |-> limit],
     offset |-> [neg |-> FALSE, mag |-> offset]]

Postgres_get_rows(oc, d, table, query, ord) ==
    LET schema == Postgres_get_table_schema(d, table)
        column_names == ColumnNames(schema.result.value.columns)
        where == Postgres_build_where_clause(query.filters, ord, 1)
        order == Postgres_order_clause(query.sort_by, query.sort_order)
        limit == Postgres_effective_limit(query.limit)
        select_statement == Postgres_select_statement(table, where, order, limit, query.offset)
        fetched == BackendSelect("postgres", d, select_statement)
        rows == fetched.rows
        count_result == Postgres_count_rows(d, table, query, ord)
        total == count_result.result.value.count
        statements == schema.sent \o <<select_statement>> \o count_result.sent
        has_more == HasMore(oc, query.offset, Len(rows), total)
    IN IF schema.result.kind = "err"
       THEN [sent |-> schema.sent, result |-> schema.result]
       ELSE IF ~Postgres_sort_column_valid(query.sort_by, column_names)
       THEN [sent |-> schema.sent, result |-> Err("InvalidColumn", query.sort_by[1])]
       ELSE IF ~fetched.ok
       THEN [sent |-> schema.sent \o <<select_statement>>,
             result |-> From_sqlx_Error(fetched.message)]
       ELSE IF count_result.result.kind = "err"
       THEN [sent |-> statements, result |-> count_result.result]
       ELSE IF has_more.kind = "panic"
       THEN [sent |-> statements, result |-> Panic]
       ELSE [sent |-> statements,
             result |-> Ok([rows |-> rows, columns |-> column_names, total |-> total,
                            offset |-> query.offset, limit |-> limit,
                            has_more |-> has_more.value])]

get_rows(b, oc, d, table, query, ord) ==
    IF b = "sqlite" THEN Sqlite_get_rows(oc, d, table, query, ord)
    ELSE Postgres_get_rows(oc, d, table, query, ord)

count_rows(b, d, table, query, ord) ==
    IF b = "sqlite" THEN Sqlite_count_rows(d, table, query, ord)
    ELSE Postgres_count_rows(d, table, query, ord)

(***************************************************************************)
(* The HTTP handlers of the row endpoints.                                 *)
(***************************************************************************)
S_DATABASE_ERROR == <<"D", "a", "t", "a", "b", "a", "s", "e", " ", "e", "r", "r", "o", "r", ":", " ">>

S_TABLE_NOT_FOUND == <<"T", "a", "b", "l", "e", " ", "n", "o", "t", " ", "f", "o", "u", "n", "d", ":", " ">>

S_INVALID_COLUMN == <<"I", "n", "v", "a", "l", "i", "d", " ", "c", "o", "l", "u", "m", "n", ":", " ">>

S_TIMEOUT == <<"Q", "u", "e", "r", "y", " ", "t", "i", "m", "e", "o", "u", "t", " ", "e", "x", "c", "e", "e", "d", "e", "d">>

S_TOO_LARGE == <<"R", "e", "s", "u", "l", "t", " ", "s", "e", "t", " ", "t", "o", "o", " ", "l", "a", "r", "g", "e", " ", "(", "m", "a", "x", " ">>

S_ROWS == <<" ", "r", "o", "w", "s", ")">>

S_SERIALIZATION == <<"S", "e", "r", "i", "a", "l", "i", "z", "a", "t", "i", "o", "n", " ", "e", "r", "r", "o", "r", ":", " ">>

NEEDLE_NOT_FOUND == <<"n", "o", "t", " ", "f", "o", "u", "n", "d">>

NEEDLE_INVALID_COLUMN == <<"I", "n", "v", "a", "l", "i", "d", " ", "c", "o", "l", "u", "m", "n">>

NEEDLE_TIMEOUT == <<"t", "i", "m", "e", "o", "u", "t">>

\* #[error("...")] of DatabaseError
ErrorDisplay(error) ==
    IF error.type = "Query" THEN S_DATABASE_ERROR \o error.arg
    ELSE IF error.type = "TableNotFound" THEN S_TABLE_NOT_FOUND \o error.arg
    ELSE IF error.type = "InvalidColumn" THEN S_INVALID_COLUMN \o error.arg
    ELSE IF error.type = "Timeout" THEN S_TIMEOUT
    ELSE IF error.type = "TooManyRows" THEN S_TOO_LARGE \o Decimal(error.arg) \o S_ROWS
    ELSE S_SERIALIZATION \o error.arg

Response(status, body) == [kind |-> "response", status |-> status, body |-> body]

get_rows_status(error) ==
    LET message == ErrorDisplay(error)
    IN IF ContainsText(message, NEEDLE_NOT_FOUND) THEN 404
       ELSE IF ContainsText(message, NEEDLE_INVALID_COLUMN) THEN 400
       ELSE IF ContainsText(message, NEEDLE_TIMEOUT) THEN 408
       ELSE 500

count_rows_status(error) ==
    LET message == ErrorDisplay(error)
    IN IF ContainsText(message, NEEDLE_NOT_FOUND) THEN 404
       ELSE IF ContainsText(message, NEEDLE_INVALID_COLUMN) THEN 400
       ELSE 500

\* if query.limit > MAX_LIMIT { query.limit = MAX_LIMIT; }
Handler_cap(query) ==
    IF BigLess(Big(HANDLER_MAX_LIMIT), query.limit)
    THEN [query EXCEPT !.limit = Big(HANDLER_MAX_LIMIT)]
    ELSE query

\* match database.get_rows(&table_name, query).await
get_rows_response(outcome) ==
    [sent |-> outcome.sent,
     result |-> IF outcome.result.kind = "ok" THEN Response(200, outcome.result.value)
                ELSE IF outcome.result.kind = "err"
                THEN Response(get_rows_status(outcome.result.error),
                              [error |-> ErrorDisplay(outcome.result.error)])
                ELSE Panic]

get_rows_handler(b, oc, d, table_name, query, ord) ==
    get_rows_response(get_rows(b, oc, d, table_name, Handler_cap(query), ord))

\* match database.count_rows(&table_name, &query).await
count_rows_response(outcome) ==
    [sent |-> outcome.sent,
     result |-> IF outcome.result.kind = "ok" THEN Response(200, outcome.result.value)
                ELSE Response(count_rows_status(outcome.result.error),
                              [error |-> ErrorDisplay(outcome.result.error)])]

count_rows_handler(b, d, table_name, query, ord) ==
    count_rows_response(count_rows(b, d, table_name, query, ord))

get_table_schema_status(error) ==
    IF ContainsText(ErrorDisplay(error), NEEDLE_NOT_FOUND) THEN 404 ELSE 500

\* match database.get_table_schema(&table_name).await
get_table_schema_response(outcome) ==
    [sent |-> outcome.sent,
     result |-> IF outcome.result.kind = "ok" THEN Response(200, outcome.result.value)
                ELSE Response(get_table_schema_status(outcome.result.error),
                              [error |-> ErrorDisplay(outcome.result.error)])]

get_table_schema_handler(b, d, table_name) ==
    get_table_schema_response(get_table_schema(b, d, table_name))

(***************************************************************************)
(* Raw query executor.  A raw statement is its text, which is all the      *)
(* provider sees, and what the backend does with it (does): "query"         *)
(* statements return rows, the others change rows or are rejected.         *)
(***************************************************************************)
SQL_SELECT_1 == <<"S", "E", "L", "E", "C", "T", " ", "1">>

SQL_SELECT_USERS == <<" ", " ", "s", "e", "l", "e", "c", "t", " ", "*", " ", "f", "r", "o", "m", " ", "u", "s", "e", "r", "s", "\n">>

SQL_PRAGMA == <<"P", "r", "a", "g", "m", "a", " ", "u", "s", "e", "r", "_", "v", "e", "r", "s", "i", "o", "n">>

SQL_EXPLAIN == <<"\t", "e", "x", "p", "l", "a", "i", "n", " ", "s", "e", "l", "e", "c", "t", " ", "1">>

SQL_TYPO == <<"S", "E", "L", "C", "T", " ", "1">>

SQL_UPDATE == <<"U", "P", "D", "A", "T", "E", " ", "u", "s", "e", "r", "s", " ", "S", "E", "T", " ", "c", "i", "t", "y", " ", "=", " ", "'", "x", "'">>

SQL_DELETE == <<" ", "d", "e", "l", "e", "t", "e", " ", "f", "r", "o", "m", " ", "u", "s", "e", "r", "s">>

SQL_INSERT == <<"I", "N", "S", "E", "R", "T", " ", "I", "N", "T", "O", " ", "u", "s", "e", "r", "s", " ", "D", "E", "F", "A", "U", "L", "T", " ", "V", "A", "L", "U", "E", "S">>

\* statements that return as many rows as the ceiling, and one more
SQL_SELECT_CEILING == <<"S", "E", "L", "E", "C", "T", " ", "*", " ", "F", "R", "O", "M", " ", "c">>

SQL_SELECT_OVER == <<"S", "E", "L", "E", "C", "T", " ", "*", " ", "F", "R", "O", "M", " ", "o">>

SQL_WITH == <<"W", "I", "T", "H", " ", "t", " ", "A", "S", " ", "(", "S", "E", "L", "E", "C", "T", " ", "1", ")", " ", "S", "E", "L", "E", "C", "T", " ", "*", " ", "F", "R", "O", "M", " ", "t">>

S_SELECT == <<"S", "E", "L", "E", "C", "T">>

S_PRAGMA == <<"P", "R", "A", "G", "M", "A">>

S_EXPLAIN == <<"E", "X", "P", "L", "A", "I", "N">>

MSG_SYNTAX_ERROR == <<"s", "y", "n", "t", "a", "x", " ", "e", "r", "r", "o", "r">>

MSG_CONSTRAINT == <<"U", "N", "I", "Q", "U", "E", " ", "c", "o", "n", "s", "t", "r", "a", "i", "n", "t", " ", "f", "a", "i", "l", "e", "d">>

MSG_POOL_TIMED_OUT == <<"p", "o", "o", "l", " ", "t", "i", "m", "e", "d", " ", "o", "u", "t", " ", "w", "h", "i", "l", "e", " ", "w", "a", "i", "t", "i", "n", "g", " ", "f", "o", "r", " ", "a", "n", " ", "o", "p", "e", "n", " ", "c", "o", "n", "n", "e", "c", "t", "i", "o", "n">>

MAX_RESULT_ROWS == 10000

PG_MAX_ROWS == 10000

QUERY_TIMEOUT_SECONDS == 30

IsWhitespace(ch) == ch \in {" ", "\t", "\n", "\r"}

RECURSIVE TrimStart(_)
TrimStart(text) ==
    IF text # <<>> /\ IsWhitespace(Head(text)) THEN TrimStart(Tail(text)) ELSE text

RECURSIVE TrimEnd(_)
TrimEnd(text) ==
    IF text # <<>> /\ IsWhitespace(text[Len(text)])
    THEN TrimEnd(SubSeq(text, 1, Len(text) - 1)) ELSE text

\* str::trim
Trim(text) == TrimEnd(TrimStart(text))

Sqlite_is_select_query(sql) ==
    LET trimmed_sql == ToUppercase(Trim(sql))
    IN \/ StartsWith(trimmed_sql, S_SELECT)
       \/ StartsWith(trimmed_sql, S_PRAGMA)
       \/ StartsWith(trimmed_sql, S_EXPLAIN)

\* how the statement is handed to the pool
Sqlite_execute_query_path(sql) == IF Sqlite_is_select_query(sql) THEN "fetch_all" ELSE "execute"

Postgres_execute_query_path(sql) == "fetch_all"

execute_query_path(b, sql) ==
    IF b = "sqlite" THEN Sqlite_execute_query_path(sql) ELSE Postgres_execute_query_path(sql)

QueryResult(columns, rows, affected_rows, execution_time_milliseconds, error) ==
    [columns |-> columns, rows |-> rows, affected_rows |-> affected_rows,
     execution_time_milliseconds |-> execution_time_milliseconds, error |-> error]

\* mutant: an SQL error of the statement propagates as DatabaseError::Query
Sqlite_execute_query_result_Propagate(path, reply, execution_time_milliseconds) ==
    IF reply.kind \in {"sql_error", "pool_error"}
    THEN Err("Query", reply.message)
    ELSE IF path = "fetch_all"
    THEN Ok(QueryResult(IF reply.rows # <<>> THEN reply.columns ELSE <<>>,
                        reply.rows, Len(reply.rows), execution_time_milliseconds, None))
    ELSE Ok(QueryResult(<<>>, <<>>, reply.rows_affected, execution_time_milliseconds, None))

\* mutant: a result over the ceiling is cut to the ceiling
Sqlite_execute_query_result_Truncate(path, reply, execution_time_milliseconds) ==
    IF reply.kind \in {"sql_error", "pool_error"}
    THEN Ok(QueryResult(<<>>, <<>>, 0, execution_time_milliseconds, Some(reply.message)))
    ELSE IF path = "fetch_all"
    THEN LET kept == IF Len(reply.rows) > MAX_RESULT_ROWS
                     THEN SubSeq(reply.rows, 1, MAX_RESULT_ROWS) ELSE reply.rows
         IN Ok(QueryResult(IF kept # <<>> THEN reply.columns ELSE <<>>,
                           kept, Len(kept), execution_time_milliseconds, None))
    ELSE Ok(QueryResult(<<>>, <<>>, reply.rows_affected, execution_time_milliseconds, None))

\* the match on the outcome of the statement, once the timer has not fired;
\* reply is what the pool answered: rows, a completion, or an error
Sqlite_execute_query_result(path, reply, execution_time_milliseconds) ==
    IF reply.kind \in {"sql_error", "pool_error"}
    THEN Ok(QueryResult(<<>>, <<>>, 0, execution_time_milliseconds, Some(reply.message)))
    ELSE IF path = "fetch_all"
    THEN IF Len(reply.rows) > MAX_RESULT_ROWS
         THEN Err("TooManyRows", MAX_RESULT_ROWS)
         ELSE Ok(QueryResult(IF reply.rows # <<>> THEN reply.columns ELSE <<>>,
                             reply.rows, Len(reply.rows), execution_time_milliseconds, None))
    ELSE Ok(QueryResult(<<>>, <<>>, reply.rows_affected, execution_time_milliseconds, None))

Postgres_execute_query_result(reply, execution_time_milliseconds) ==
    IF reply.kind \in {"sql_error", "pool_error"}
    THEN Ok(QueryResult(<<>>, <<>>, 0, execution_time_milliseconds, Some(reply.message)))
    ELSE IF reply.rows = <<>>
    THEN Ok(QueryResult(<<>>, <<>>, 0, execution_time_milliseconds, None))
    ELSE IF Len(reply.rows) > PG_MAX_ROWS
    THEN Err("TooManyRows", PG_MAX_ROWS)
    ELSE Ok(QueryResult(reply.columns, reply.rows, 0, execution_time_milliseconds, None))

execute_query_result(b, path, reply, execution_time_milliseconds) ==
    IF b = "sqlite" THEN Sqlite_execute_query_result(path, reply, execution_time_milliseconds)
    ELSE Postgres_execute_query_result(reply, execution_time_milliseconds)

(***************************************************************************)
(* The inputs the model draws from.                                        *)
(***************************************************************************)
IdentChars == {"a", "b", DQ}

Identifiers == SeqsUpTo(IdentChars, MaxIdentLen)

V_AB == <<"a", "b">>

V_A_PCT == <<"a", "%">>

V_PCT == <<"%">>

FilterMaps(columns, values) == UNION {[S -> values] : S \in SUBSET columns}

BuilderFilterMaps == FilterMaps({Name, City, Odd}, {V_AB, V_A_PCT, V_PCT})

\* build_where_clause is called with parameter_offset 1; 9 makes the
\* placeholder numbers cross into two digits
ParameterOffsets == {1, 9}

SortOrders == {None, Some("Ascending"), Some("Descending")}

NoDb == [tables |-> <<>>]

NoCall == [op |-> "none"]

NoResult == [kind |-> "none"]

(***************************************************************************)
(* SpecBuilder: the pure functions of the query builder, applied to every  *)
(* input of the bounded sets.                                              *)
(***************************************************************************)
InitBuilder ==
    /\ backend \in Backends
    /\ overflow_checks = FALSE
    /\ db = NoDb
    /\ call = NoCall
    /\ sent = <<>>
    /\ result = NoResult

\* the caller takes the returned value; the next call can start
Return ==
    /\ call # NoCall
    /\ result.kind # "pending"
    /\ call' = NoCall
    /\ sent' = <<>>
    /\ result' = NoResult
    /\ UNCHANGED <<backend, overflow_checks, db>>

QuoteIdentifierCall ==
    /\ call = NoCall
    /\ \E identifier \in Identifiers :
        /\ call' = [op |-> "quote_identifier", identifier |-> identifier]
        /\ result' = [kind |-> "text", text |-> quote_identifier(backend, identifier)]
    /\ UNCHANGED <<backend, overflow_checks, db, sent>>

BuildWhereClauseCall ==
    /\ call = NoCall
    /\ \E filters \in BuilderFilterMaps :
       \E ord \in Orders(DOMAIN filters) :
       \E parameter_offset \in ParameterOffsets :
        /\ backend = "sqlite" => parameter_offset = 1
        /\ call' = [op |-> "build_where_clause", filters |-> filters, ord |-> ord,
                    parameter_offset |-> parameter_offset]
        /\ result' = [kind |-> "where",
                      where |-> IF backend = "sqlite"
                                THEN Sqlite_build_where_clause(filters, ord)
                                ELSE Postgres_build_where_clause(filters, ord, parameter_offset)]
    /\ UNCHANGED <<backend, overflow_checks, db, sent>>

BuildOrderClauseCall ==
    /\ call = NoCall
    /\ backend = "sqlite"
    /\ \E sort_by \in {None, Some(Name), Some(Odd)} :
       \E sort_order \in SortOrders :
        /\ call' = [op |-> "build_order_clause", sort_by |-> sort_by, sort_order |-> sort_order]
        /\ result' = [kind |-> "text", text |-> Sqlite_build_order_clause(sort_by, sort_order).clause]
    /\ UNCHANGED <<backend, overflow_checks, db, sent>>

NextBuilder ==
    \/ QuoteIdentifierCall
    \/ BuildWhereClauseCall
    \/ BuildOrderClauseCall
    \/ Return

SpecBuilder == InitBuilder /\ [][NextBuilder]_vars

(***************************************************************************)
(* Claims about the query builder.                                         *)
(***************************************************************************)
S_LIKE == <<" ", "L", "I", "K", "E", " ">>

S_EQ == <<" ", "=", " ">>

Placeholder(b, index, parameter_offset) ==
    IF b = "sqlite" THEN <<"?">> ELSE <<"$">> \o Decimal(parameter_offset + index - 1)

ExpectedCondition(b, column, value, index, parameter_offset) ==
    quote_identifier(b, column)
        \o (IF \E k \in 1..Len(value) : value[k] = "%" THEN S_LIKE ELSE S_EQ)
        \o Placeholder(b, index, parameter_offset)

\* C3: build_where_clause of an empty map is the empty clause with no
\* parameters; of a non-empty map it is " WHERE " followed by exactly one
\* condition per entry, joined by " AND ", the condition being
\* `quoted_column LIKE <placeholder>` iff the value contains '%' and
\* `quoted_column = <placeholder>` otherwise; the i-th parameter is the value
\* of the i-th condition's column, and on PostgreSQL the i-th placeholder is
\* $(parameter_offset + i - 1).
C3_WhereClause ==
    call.op = "build_where_clause" =>
        LET filters == call.filters
            n == Cardinality(DOMAIN filters)
            where == result.where
        IN IF n = 0
           THEN where.clause = <<>> /\ where.values = <<>>
           ELSE \E p \in Orders(DOMAIN filters) :
                    /\ where.clause =
                         S_WHERE \o Join([i \in 1..n |->
                             ExpectedCondition(backend, p[i], filters[p[i]], i,
                                               call.parameter_offset)], S_AND)
                    /\ Len(where.values) = n
                    /\ \A i \in 1..n : where.values[i] = filters[p[i]]

C3_Witness ==
    /\ call.op = "build_where_clause"
    /\ backend = "postgres"
    /\ call.parameter_offset = 9
    /\ call.filters = (Name :> V_AB @@ Odd :> V_A_PCT)
    /\ call.ord = <<Name, Odd>>
    /\ result.where.clause =
         S_WHERE \o <<DQ, "n", "a", "m", "e", DQ, " ", "=", " ", "$", "9">>
                 \o S_AND \o <<DQ, "o", DQ, DQ, "d", DQ>> \o S_LIKE \o <<"$", "1", "0">>
    /\ result.where.values = <<V_AB, V_A_PCT>>

RECURSIVE WellPaired(_)
WellPaired(text) ==
    IF text = <<>> THEN TRUE
    ELSE IF Head(text) # DQ THEN WellPaired(Tail(text))
    ELSE Len(text) >= 2 /\ text[2] = DQ /\ WellPaired(SubSeq(text, 3, Len(text)))

RECURSIVE Undouble(_)
Undouble(text) ==
    IF text = <<>> THEN <<>>
    ELSE IF Head(text) # DQ THEN <<Head(text)>> \o Undouble(Tail(text))
    ELSE <<DQ>> \o Undouble(SubSeq(text, 3, Len(text)))

CountQuotes(text) == Cardinality({i \in 1..Len(text) : text[i] = DQ})

\* C4: quote_identifier(s) starts and ends with a double quote, every double
\* quote of s appears doubled between them (no unpaired double quote), and
\* un-doubling the text between the outer quotes gives back s; two different
\* identifiers never quote to the same text.
C4_QuoteRoundTrip ==
    call.op = "quote_identifier" =>
        LET s == call.identifier
            q == result.text
            inner == SubSeq(q, 2, Len(q) - 1)
        IN /\ Len(q) >= 2
           /\ q[1] = DQ
           /\ q[Len(q)] = DQ
           /\ WellPaired(inner)
           /\ CountQuotes(inner) = 2 * CountQuotes(s)
           /\ Undouble(inner) = s
           /\ \A other \in Identifiers :
                other # s => quote_identifier(backend, other) # q

C4_Witness ==
    /\ call.op = "quote_identifier"
    /\ call.identifier = <<"a", DQ, "b">>
    /\ result.text = <<DQ, "a", DQ, DQ, "b", DQ>>

(***************************************************************************)
(* SpecRows: one provider over one database; get_rows and count_rows are   *)
(* called directly and through their handlers, one call at a time.         *)
(***************************************************************************)
SmallTable == 3

ExtraRows == 2

SmallOffset == 2

SmallLimit == 2

\* users(id INTEGER PRIMARY KEY, name TEXT, city TEXT)
UsersColumns ==
    [k \in 1..Len(TableColumns) |->
        [name |-> TableColumns[k],
         type |-> IF k = 1 THEN T_INTEGER ELSE T_TEXT,
         notnull |-> k = 1,
         dflt_value |-> None,
         pk |-> IF k = 1 THEN 1 ELSE 0]]

DbOf(n) ==
    [tables |-> (Users :> [type |-> "table", schema |-> S_PUBLIC, readable |-> TRUE,
                           rows |-> n, columns |-> UsersColumns,
                           foreign_keys |-> <<>>, indexes |-> <<>>])]

Databases == {DbOf(SmallTable), DbOf(MAX_LIMIT + ExtraRows)}

Offsets == {Big(0), Big(SmallOffset), U64_MAX}

Limits == {Big(SmallLimit), Big(MAX_LIMIT + 1), U64_MAX}

SortBys == {None, Some(Name), Some(Bogus)}

RowsFilterMaps ==
    {filters \in FilterMaps({Name, City}, {V_AB, V_A_PCT}) :
        City \in DOMAIN filters => filters[City] = V_A_PCT}

RowQueries ==
    [offset : Offsets, limit : Limits, sort_by : SortBys, sort_order : SortOrders,
     filters : RowsFilterMaps]

\* the queries tried on a table that does not exist, and through count_rows
PlainQueries ==
    {query \in RowQueries :
        /\ query.offset = Big(0)
        /\ query.limit = Big(SmallLimit)
        /\ query.sort_order = None}

\* the queries tried through get_rows_handler
HandlerQueries == {query \in RowQueries : Cardinality(DOMAIN query.filters) <= 1}

RowsInputs == ({Users} \X RowQueries) \cup ({Ghost} \X PlainQueries)

CountInputs == {Users, Ghost} \X PlainQueries

\* a column name that reads like the text of another error
NotFoundColumn == <<"n", "o", "t", " ", "f", "o", "u", "n", "d">>

NotFoundQueries ==
    {query \in [offset : {Big(0)}, limit : {Big(SmallLimit)}, sort_by : {Some(NotFoundColumn)},
                sort_order : {None}, filters : RowsFilterMaps] :
        DOMAIN query.filters = {}}

HandlerInputs ==
    ({Users} \X HandlerQueries) \cup ({Ghost} \X PlainQueries) \cup ({Users} \X NotFoundQueries)

InitRows ==
    /\ backend \in Backends
    /\ overflow_checks \in BOOLEAN
    /\ db \in Databases
    /\ call = NoCall
    /\ sent = <<>>
    /\ result = NoResult

GetRows ==
    /\ call = NoCall
    /\ \E input \in RowsInputs :
       \E ord \in Orders(DOMAIN input[2].filters) :
        LET table == input[1]
            query == input[2]
            outcome == get_rows(backend, overflow_checks, db, table, query, ord)
        IN /\ call' = [op |-> "get_rows", table |-> table, query |-> query, ord |-> ord]
           /\ sent' = outcome.sent
           /\ result' = outcome.result
    /\ UNCHANGED <<backend, overflow_checks, db>>

CountRows ==
    /\ call = NoCall
    /\ \E input \in CountInputs :
       \E ord \in Orders(DOMAIN input[2].filters) :
        LET table == input[1]
            query == input[2]
            outcome == count_rows(backend, db, table, query, ord)
        IN /\ call' = [op |-> "count_rows", table |-> table, query |-> query, ord |-> ord]
           /\ sent' = outcome.sent
           /\ result' = outcome.result
    /\ UNCHANGED <<backend, overflow_checks, db>>

GetRowsHandler ==
    /\ call = NoCall
    /\ \E input \in HandlerInputs :
       \E ord \in Orders(DOMAIN input[2].filters) :
        LET table == input[1]
            query == input[2]
            outcome == get_rows_handler(backend, overflow_checks, db, table, query, ord)
        IN /\ call' = [op |-> "get_rows_handler", table |-> table, query |-> query, ord |-> ord]
           /\ sent' = outcome.sent
           /\ result' = outcome.result
    /\ UNCHANGED <<backend, overflow_checks, db>>

CountRowsHandler ==
    /\ call = NoCall
    /\ \E input \in CountInputs :
       \E ord \in Orders(DOMAIN input[2].filters) :
        LET table == input[1]
            query == input[2]
            outcome == count_rows_handler(backend, db, table, query, ord)
        IN /\ call' = [op |-> "count_rows_handler", table |-> table, query |-> query, ord |-> ord]
           /\ sent' = outcome.sent
           /\ result' = outcome.result
    /\ UNCHANGED <<backend, overflow_checks, db>>

GetTableSchemaHandler ==
    /\ call = NoCall
    /\ \E table \in {Users, Ghost} :
       \E outcome \in {get_table_schema_handler(backend, db, table)} :
        /\ call' = [op |-> "get_table_schema_handler", table |-> table]
        /\ sent' = outcome.sent
        /\ result' = outcome.result
    /\ UNCHANGED <<backend, overflow_checks, db>>

NextRows ==
    \/ GetRows
    \/ CountRows
    \/ GetRowsHandler
    \/ CountRowsHandler
    \/ GetTableSchemaHandler
    \/ Return

SpecRows == InitRows /\ [][NextRows]_vars

(***************************************************************************)
(* Claims about get_rows and count_rows.                                   *)
(***************************************************************************)
SentOfKind(kind) == SelectSeq(sent, LAMBDA statement : statement.kind = kind)

\* C1: get_rows on an existing table with sort_by naming no column of the
\* table fails with InvalidColumn(sort_by), and neither the row SELECT nor
\* the COUNT statement is sent in that call.
C1_InvalidSortColumn ==
    (/\ call.op = "get_rows"
     /\ call.table \in DOMAIN db.tables
     /\ call.query.sort_by # None
     /\ ~KnownColumn(call.query.sort_by[1]))
    => /\ result = Err("InvalidColumn", call.query.sort_by[1])
       /\ SentOfKind("select") = <<>>
       /\ SentOfKind("count") = <<>>

\* the filter maps with the same column names and the same presence of '%'
\* in each value
SameShapeFilters(filters) ==
    {other \in FilterMaps(DOMAIN filters, {V_AB, V_A_PCT, V_PCT, <<"z">>}) :
        /\ DOMAIN other = DOMAIN filters
        /\ \A column \in DOMAIN filters :
             Contains(other[column], "%") <=> Contains(filters[column], "%")}

SameShapeQueries(query) ==
    {[offset |-> o, limit |-> l, sort_by |-> query.sort_by,
      sort_order |-> query.sort_order, filters |-> f] :
        o \in Offsets, l \in Limits, f \in SameShapeFilters(query.filters)}

TextsOfKind(statements, kind) ==
    {statements[k].text : k \in {j \in 1..Len(statements) : statements[j].kind = kind}}

\* C2: the SQL text get_rows and count_rows send never contains a
\* user-supplied value: two queries on the same table with the same filter
\* column names, the same presence of '%' in each value and the same sort
\* send the same text, whatever the filter values, limit and offset.
C2_TextIndependentOfValues ==
    call.op \in {"get_rows", "count_rows"} =>
        \A other \in SameShapeQueries(call.query) :
            LET outcome == IF call.op = "get_rows"
                           THEN get_rows(backend, overflow_checks, db, call.table, other, call.ord)
                           ELSE count_rows(backend, db, call.table, other, call.ord)
            IN \A kind \in {"select", "count"} :
                 \A mine \in TextsOfKind(sent, kind) :
                   \A theirs \in TextsOfKind(outcome.sent, kind) : mine = theirs

\* C5: get_rows asks the backend for min(L, 500) rows and reports
\* limit = min(L, 500); for L > 500 the response is the response for L = 500
\* on the same database; the cap of get_rows_handler followed by the cap of
\* the provider gives what the provider's cap alone gives.
C5_LimitCap ==
    /\ call.op = "get_rows" =>
         LET capped == BigMin(call.query.limit, Big(500))
             selects == SentOfKind("select")
         IN /\ \A k \in 1..Len(selects) :
                 /\ selects[k].limit = [neg |-> FALSE, mag |-> capped]
                 /\ IF backend = "sqlite"
                    THEN selects[k].params[Len(selects[k].params) - 1]
                            = [neg |-> FALSE, mag |-> capped]
                    ELSE ContainsText(selects[k].text,
                                      S_LIMIT \o U64Display(capped) \o S_OFFSET)
            /\ result.kind = "ok" =>
                 /\ result.value.limit = capped
                 /\ Len(result.value.rows) <= 500
            /\ BigLess(Big(500), call.query.limit) =>
                 result = get_rows(backend, overflow_checks, db, call.table,
                                   [call.query EXCEPT !.limit = Big(500)], call.ord).result
    /\ call.op = "get_rows_handler" =>
         LET direct == get_rows(backend, overflow_checks, db, call.table, call.query, call.ord)
         IN /\ sent = direct.sent
            /\ direct.result.kind = "ok" => result = Response(200, direct.result.value)
            /\ direct.result.kind = "panic" => result = Panic
            /\ direct.result.kind = "err" =>
                 result.kind = "response" /\ result.body = [error |-> ErrorDisplay(direct.result.error)]

C5_Witness ==
    /\ call.op = "get_rows"
    /\ call.query.limit = U64_MAX
    /\ call.query.offset = Big(0)
    /\ db.tables[Users].rows > 500
    /\ result.kind = "ok"
    /\ Len(result.value.rows) = 500
    /\ result.value.limit = Big(500)
    /\ result.value.has_more

\* C6: in every RowsResponse has_more is true iff offset + len(rows) < total,
\* the sum being the unbounded sum, for every offset of the u64 range; and
\* the response's offset is the requested offset.
C6_HasMore ==
    (call.op = "get_rows" /\ result.kind = "ok") =>
        /\ result.value.has_more <=>
             BigLess(BigAdd(call.query.offset, Big(Len(result.value.rows))), result.value.total)
        /\ result.value.offset = call.query.offset

CountPrefix == IF backend = "sqlite" THEN S_SQLITE_COUNT ELSE S_PG_COUNT

WhereOf(filters, ord) ==
    IF backend = "sqlite" THEN Sqlite_build_where_clause(filters, ord)
    ELSE Postgres_build_where_clause(filters, ord, 1)

\* the same query with other pagination and sort
Repaginated(query) ==
    {[query EXCEPT !.offset = Big(0), !.limit = Big(1), !.sort_by = None, !.sort_order = None],
     [query EXCEPT !.offset = U64_MAX, !.limit = U64_MAX, !.sort_by = Some(Bogus),
                   !.sort_order = Some("Descending")]}

\* C7: on an unchanged database get_rows(table, query).total equals
\* count_rows(table, query).count; the count statement has the WHERE text
\* and the bound values of the row statement, in the same order, and no
\* sort, limit or offset; the count does not depend on sort, limit, offset.
C7_TotalEqualsCount ==
    (call.op = "get_rows" /\ result.kind = "ok") =>
        LET counted == count_rows(backend, db, call.table, call.query, call.ord)
            where == WhereOf(call.query.filters, call.ord)
            quoted == quote_identifier(backend, call.table)
            counts == SentOfKind("count")
            selects == SentOfKind("select")
        IN /\ counted.result.kind = "ok"
           /\ result.value.total = counted.result.value.count
           /\ \A other \in Repaginated(call.query) :
                count_rows(backend, db, call.table, other, call.ord).result = counted.result
           /\ Len(counts) = 1
           /\ Len(selects) = 1
           /\ counts[1].text = CountPrefix \o quoted \o where.clause
           /\ StartsWith(selects[1].text, S_SELECT_FROM \o quoted \o where.clause)
           /\ counts[1].params = where.values
           /\ SubSeq(selects[1].params, 1, Len(where.values)) = where.values
           /\ \A k \in 1..Len(where.values) :
                where.values[k] = call.query.filters[call.ord[k]]
           /\ counts[1].text = counted.sent[Len(counted.sent)].text

C7_Witness ==
    /\ call.op = "get_rows"
    /\ backend = "sqlite"
    /\ result.kind = "ok"
    /\ call.query.filters = (Name :> V_A_PCT @@ City :> V_A_PCT)
    /\ call.query.offset = Big(SmallOffset)
    /\ call.query.sort_by = Some(Name)
    /\ call.query.sort_order = Some("Descending")
    /\ result.value.total # Big(0)
    /\ result.value.total # Big(db.tables[Users].rows)
    /\ result.value.rows # <<>>

S_ASC_SUFFIX == <<" ", "A", "S", "C">>

S_DESC_SUFFIX == <<" ", "D", "E", "S", "C">>

\* C8: with sort_by naming a real column the row statement contains
\* ORDER BY <quoted sort_by> ASC when sort_order is absent (or Ascending) and
\* ORDER BY <quoted sort_by> DESC when it is Descending; with sort_by absent
\* it contains no ORDER BY.
C8_SortDirection ==
    call.op = "get_rows" =>
        \A k \in 1..Len(sent) :
            sent[k].kind = "select" =>
                LET text == sent[k].text
                    sort_by == call.query.sort_by
                    sort_order == call.query.sort_order
                IN IF sort_by = None THEN ~ContainsText(text, S_ORDER_BY)
                   ELSE KnownColumn(sort_by[1]) =>
                        ContainsText(text,
                            S_ORDER_BY \o quote_identifier(backend, sort_by[1])
                                \o (IF sort_order = Some("Descending")
                                    THEN S_DESC_SUFFIX ELSE S_ASC_SUFFIX))

(***************************************************************************)
(* SpecExec: execute_query, one call at a time.  The call hands the        *)
(* statement to the pool and waits; the statement completes with the       *)
(* backend's reply, or (SQLite provider) the 30 second timer fires first.  *)
(***************************************************************************)
InsertRoom == 1

RawStatements ==
    {[sql |-> SQL_SELECT_1, does |-> "select_one"],
     [sql |-> SQL_SELECT_USERS, does |-> "select_users"],
     [sql |-> SQL_PRAGMA, does |-> "pragma"],
     [sql |-> SQL_EXPLAIN, does |-> "explain"],
     [sql |-> SQL_TYPO, does |-> "invalid"],
     [sql |-> SQL_UPDATE, does |-> "update"],
     [sql |-> SQL_DELETE, does |-> "delete"],
     [sql |-> SQL_INSERT, does |-> "insert"],
     [sql |-> SQL_WITH, does |-> "select_one"],
     [sql |-> SQL_SELECT_CEILING, does |-> "select_ceiling"],
     [sql |-> SQL_SELECT_OVER, does |-> "select_over"]}

Does(sql) == (CHOOSE statement \in RawStatements : statement.sql = sql).does

\* the number of rows of the database the statement changes when it succeeds
RowsChanged(d, sql) ==
    LET does == Does(sql)
    IN IF does \in {"update", "delete"} THEN d.tables[Users].rows
       ELSE IF does = "insert" THEN 1
       ELSE 0

\* what running the statement can lead to: the pool's reply and the
\* database afterwards
BackendRun(b, d, sql, path) ==
    LET n == d.tables[Users].rows
        does == Does(sql)
        Rejected(message) == [reply |-> [kind |-> "sql_error", message |-> message], db |-> d]
        Returned(rows, columns) ==
            [reply |-> IF path = "fetch_all"
                       THEN [kind |-> "rows", rows |-> rows, columns |-> columns]
                       ELSE [kind |-> "done", rows_affected |-> 0],
             db |-> d]
        Changed(k, after) ==
            [reply |-> IF path = "fetch_all"
                       THEN [kind |-> "rows", rows |-> <<>>, columns |-> <<>>]
                       ELSE [kind |-> "done", rows_affected |-> k],
             db |-> after]
    IN {[reply |-> [kind |-> "pool_error", message |-> MSG_POOL_TIMED_OUT], db |-> d]}
       \cup
       (IF does = "invalid" THEN {Rejected(MSG_SYNTAX_ERROR)}
        ELSE IF does = "pragma"
        THEN (IF b = "sqlite" THEN {Returned(<<0>>, <<(<<"u", "v">>)>>)}
              ELSE {Rejected(MSG_SYNTAX_ERROR)})
        ELSE IF does \in {"select_one", "explain"} THEN {Returned(<<1>>, <<(<<"1">>)>>)}
        ELSE IF does = "select_users" THEN {Returned([i \in 1..n |-> i], TableColumns)}
        ELSE IF does = "select_ceiling"
        THEN {Returned([i \in 1..MAX_RESULT_ROWS |-> i], <<Id>>)}
        ELSE IF does = "select_over"
        THEN {Returned([i \in 1..(MAX_RESULT_ROWS + 1) |-> i], <<Id>>)}
        ELSE IF does = "update" THEN {Changed(RowsChanged(d, sql), d)}
        ELSE IF does = "delete" THEN {Changed(RowsChanged(d, sql), DbOf(0))}
        ELSE {Rejected(MSG_CONSTRAINT)}
             \cup (IF n < SmallTable + InsertRoom
                   THEN {Changed(RowsChanged(d, sql), DbOf(n + 1))} ELSE {}))

\* start_time.elapsed().as_millis(): with the timer armed the statement
\* completed within the timeout
ElapsedTimes(timer) ==
    {ms \in {0, QUERY_TIMEOUT_SECONDS * 1000 - 1, QUERY_TIMEOUT_SECONDS * 1000 + 1} :
        timer => ms < QUERY_TIMEOUT_SECONDS * 1000}

Pending == [kind |-> "pending"]

InitExec ==
    /\ backend \in Backends
    /\ overflow_checks = FALSE
    /\ db = DbOf(SmallTable)
    /\ call = NoCall
    /\ sent = <<>>
    /\ result = NoResult

ExecuteQuery ==
    /\ call = NoCall
    /\ \E statement \in RawStatements :
        /\ call' = [op |-> "execute_query", sql |-> statement.sql]
        /\ sent' = <<[kind |-> execute_query_path(backend, statement.sql),
                      text |-> statement.sql,
                      timer |-> backend = "sqlite",
                      reply |-> [kind |-> "none"]]>>
    /\ result' = Pending
    /\ UNCHANGED <<backend, overflow_checks, db>>

StatementCompletes ==
    /\ call.op = "execute_query"
    /\ result = Pending
    /\ \E outcome \in BackendRun(backend, db, call.sql, sent[1].kind) :
       \E ms \in ElapsedTimes(sent[1].timer) :
        /\ db' = outcome.db
        /\ sent' = <<[sent[1] EXCEPT !.reply = outcome.reply]>>
        /\ result' = execute_query_result(backend, sent[1].kind, outcome.reply, ms)
    /\ UNCHANGED <<backend, overflow_checks, call>>

\* tokio::time::timeout elapsed: the statement is abandoned; the backend may
\* still carry it out
TimerFires ==
    /\ call.op = "execute_query"
    /\ result = Pending
    /\ sent[1].timer
    /\ \E after \in {db} \cup {outcome.db : outcome \in BackendRun(backend, db, call.sql, sent[1].kind)} :
        db' = after
    /\ result' = Err("Timeout", <<>>)
    /\ UNCHANGED <<backend, overflow_checks, call, sent>>

NextExec ==
    \/ ExecuteQuery
    \/ StatementCompletes
    \/ TimerFires
    \/ Return

SpecExec == InitExec /\ [][NextExec]_vars

(***************************************************************************)
(* Claims about execute_query.                                             *)
(***************************************************************************)
ReadPrefixes == {S_SELECT, S_PRAGMA, S_EXPLAIN}

\* C9: execute_query takes the read-oriented path (fetch all rows) exactly
\* when the statement text, trimmed and upper-cased, begins with SELECT,
\* PRAGMA or EXPLAIN, and the write-oriented path (execute) otherwise.
C9_ReadWriteClassification ==
    call.op = "execute_query" =>
        LET text == ToUppercase(Trim(call.sql))
            read == \E prefix \in ReadPrefixes :
                        Len(text) >= Len(prefix) /\ SubSeq(text, 1, Len(prefix)) = prefix
        IN /\ read => sent[1].kind = "fetch_all"
           /\ ~read => sent[1].kind = "execute"

\* C10: when the backend reports an SQL-level error for the statement,
\* execute_query returns a success value whose error is Some(message), with
\* empty columns and rows and affected_rows = 0; every QueryResult with an
\* error has empty columns and rows and affected_rows = 0, and every
\* QueryResult with rows has no error.
C10_SqlErrorIsData ==
    (call.op = "execute_query" /\ result # Pending) =>
        /\ sent[1].reply.kind = "sql_error" =>
             /\ result.kind = "ok"
             /\ result.value.error = Some(sent[1].reply.message)
             /\ result.value.columns = <<>>
             /\ result.value.rows = <<>>
             /\ result.value.affected_rows = 0
        /\ result.kind = "ok" =>
             /\ result.value.error # None =>
                  /\ result.value.columns = <<>>
                  /\ result.value.rows = <<>>
                  /\ result.value.affected_rows = 0
             /\ result.value.rows # <<>> => result.value.error = None

C10_Witness ==
    /\ call.op = "execute_query"
    /\ call.sql = SQL_TYPO
    /\ sent[1].reply.kind = "sql_error"
    /\ result.kind = "ok"
    /\ result.value.error = Some(MSG_SYNTAX_ERROR)
    /\ result.value.affected_rows = 0

\* the statement's trimmed, upper-cased text begins with SELECT, PRAGMA or
\* EXPLAIN
ReadOriented(sql) ==
    LET text == ToUppercase(Trim(sql))
    IN \E prefix \in ReadPrefixes :
           Len(text) >= Len(prefix) /\ SubSeq(text, 1, Len(prefix)) = prefix

CallReturned == call.op = "execute_query" /\ result # Pending

\* C11: execute_query returns Err exactly for infrastructure failures
\* (timeout, result over the row ceiling, pool-level error): a pool-level
\* error is never reported inside a success value as QueryResult.error, and
\* an SQL-level error is never reported as Err.
C11_ErrOnlyForInfrastructure ==
    CallReturned =>
        /\ sent[1].reply.kind = "pool_error" => result.kind = "err"
        /\ sent[1].reply.kind = "sql_error" => result.kind = "ok"
        /\ result.kind = "err" =>
             \/ result.error.type \in {"Timeout", "TooManyRows"}
             \/ sent[1].reply.kind = "pool_error"

\* C12: the statement and a 30-second timer race on both paths and both
\* backends: when the timer fires first the result is Timeout; when the
\* statement completes first, which it does within the 30 seconds, the
\* result is not Timeout.
C12_TimerRace ==
    CallReturned =>
        /\ sent[1].reply.kind = "none" => result = Err("Timeout", <<>>)
        /\ sent[1].reply.kind # "none" => result # Err("Timeout", <<>>)
        /\ result.kind = "ok" =>
             result.value.execution_time_milliseconds <= 30 * 1000

\* SpecExec with the fairness the timer has: tokio::time::timeout polls the
\* sleep, so an armed timer that stays armed fires.
SpecExecFair == SpecExec /\ WF_vars(TimerFires)

\* C13: every execute_query call eventually returns, even when the backend
\* never finishes the statement.
C13_EveryCallReturns ==
    (call.op = "execute_query" /\ result = Pending) ~> (result # Pending)

C15_ReadResult ==
    (CallReturned /\ ReadOriented(call.sql) /\ result.kind = "ok"
        /\ result.value.error = None) =>
        /\ result.value.affected_rows = Len(result.value.rows)
        /\ result.value.columns =
             IF result.value.rows = <<>> THEN <<>> ELSE sent[1].reply.columns
        /\ call.sql = SQL_SELECT_1 =>
             /\ Len(result.value.rows) = 1
             /\ Len(result.value.columns) = 1
             /\ result.value.affected_rows = 1

\* C16: a write-oriented raw statement that succeeds has no columns, no
\* rows, and affected_rows = the number of rows the backend changed.
C16_WriteResult ==
    [][(/\ call.op = "execute_query"
        /\ result = Pending
        /\ ~ReadOriented(call.sql)
        /\ result'.kind = "ok"
        /\ result'.value.error = None)
       => /\ result'.value.columns = <<>>
          /\ result'.value.rows = <<>>
          /\ result'.value.affected_rows = RowsChanged(db, call.sql)]_vars

(***************************************************************************)
(* SpecSchema: get_table_schema on a database whose table users is         *)
(* declared in every way the bounds allow.                                 *)
(***************************************************************************)
MaxColumns == 3

MaxKeyLen == 2

AllColumns == <<Id, Name, City, Odd, Bogus>>

PkIndexName == <<"u", "s", "e", "r", "s", "_", "p", "k", "e", "y">>

IndexName == <<"i", "x">>

UniqueCityIndexName == <<"u", "n", "i", "q", "u", "e", "_", "c", "i", "t", "y">>

\* the keys over m columns: sequences of distinct column positions
Keys(m) ==
    {key \in SeqsUpTo(1..m, MaxKeyLen) :
        \A i, j \in 1..Len(key) : key[i] = key[j] => i = j}

DeclaredColumns(m, key) ==
    [k \in 1..m |->
        [name |-> AllColumns[k],
         type |-> IF k = 1 THEN T_INTEGER ELSE T_TEXT,
         notnull |-> InSeq(k, key),
         dflt_value |-> IF k = m THEN Some(<<"x">>) ELSE None,
         pk |-> IF InSeq(k, key) THEN CHOOSE position \in 1..Len(key) : key[position] = k ELSE 0]]

\* the index that backs the key; SQLite lists none for an INTEGER PRIMARY
\* KEY column, which is the rowid
PkIndexes(b, m, key) ==
    LET index == [name |-> PkIndexName, unique |-> TRUE, origin |-> "pk",
                  columns |-> [position \in 1..Len(key) |-> AllColumns[key[position]]]]
    IN IF key = <<>> THEN {<<>>}
       ELSE IF b = "sqlite" /\ key = <<1>> THEN {<<>>}
       ELSE {<<index>>}

CreatedIndexes(m) ==
    {<<>>}
    \cup {<<[name |-> IndexName, unique |-> unique, origin |-> "c",
             columns |-> <<AllColumns[m]>>]>> : unique \in BOOLEAN}
    \cup {<<[name |-> UniqueCityIndexName, unique |-> FALSE, origin |-> "c",
             columns |-> <<AllColumns[1]>>]>>}

IndexLists(b, m, key) ==
    UNION {{backing \o created, created \o backing} :
              backing \in PkIndexes(b, m, key), created \in CreatedIndexes(m)}

OtherTable == <<"o", "t", "h", "e", "r">>

DeclaredForeignKeys(m) ==
    IF m >= 2 THEN <<[from |-> AllColumns[2], table |-> OtherTable, to |-> Id]>> ELSE <<>>

SchemaDatabases(b) ==
    UNION {UNION {{[tables |-> (Users :> [type |-> "table", schema |-> S_PUBLIC,
                                          readable |-> TRUE, rows |-> 0,
                                          columns |-> DeclaredColumns(m, key),
                                          foreign_keys |-> DeclaredForeignKeys(m),
                                          indexes |-> indexes])] :
                      indexes \in IndexLists(b, m, key)} :
                  key \in Keys(m)} :
              m \in 1..MaxColumns}

InitSchema ==
    /\ backend \in Backends
    /\ overflow_checks = FALSE
    /\ db \in SchemaDatabases(backend)
    /\ call = NoCall
    /\ sent = <<>>
    /\ result = NoResult

GetTableSchema ==
    /\ call = NoCall
    /\ \E table \in {Users, Ghost} :
       \E outcome \in {get_table_schema(backend, db, table)} :
        /\ call' = [op |-> "get_table_schema", table |-> table]
        /\ sent' = outcome.sent
        /\ result' = outcome.result
    /\ UNCHANGED <<backend, overflow_checks, db>>

NextSchema ==
    \/ GetTableSchema
    \/ Return

SpecSchema == InitSchema /\ [][NextSchema]_vars

(***************************************************************************)
(* Claims about get_table_schema.                                          *)
(***************************************************************************)
\* what the table is declared as, <<>> for a table that does not exist
Declared(table) == IF table \in DOMAIN db.tables THEN db.tables[table].columns ELSE <<>>

SchemaReturned == call.op = "get_table_schema" /\ result.kind = "ok"

C18_PrimaryKeyAgreement ==
    SchemaReturned =>
        LET columns == result.value.columns
            primary_key == result.value.primary_key
        IN /\ \A k \in 1..Len(columns) :
                columns[k].is_primary_key <=>
                    (primary_key # None /\ InSeq(columns[k].name, primary_key[1]))
           /\ primary_key = None <=> \A k \in 1..Len(columns) : ~columns[k].is_primary_key
           /\ primary_key # Some(<<>>)

C18_Witness ==
    /\ SchemaReturned
    /\ result.value.primary_key # None
    /\ Len(result.value.primary_key[1]) = 2
    /\ \E k \in 1..Len(result.value.columns) : ~result.value.columns[k].is_primary_key
    /\ \E k \in 1..Len(result.value.columns) : result.value.columns[k].is_primary_key

\* C19: for a table with a composite primary key, primary_key lists the
\* key columns in the order of their position inside the key, also when
\* that order is not the order of the columns in the table.
C19_PrimaryKeyOrder ==
    SchemaReturned =>
        LET declared == Declared(call.table)
            key == {k \in 1..Len(declared) : declared[k].pk > 0}
        IN Cardinality(key) >= 2 =>
             /\ result.value.primary_key # None
             /\ Len(result.value.primary_key[1]) = Cardinality(key)
             /\ \A k \in key :
                  result.value.primary_key[1][declared[k].pk] = declared[k].name

C19_Witness ==
    /\ SchemaReturned
    /\ Len(Declared(call.table)) >= 2
    /\ Declared(call.table)[1].pk = 2
    /\ Declared(call.table)[2].pk = 1
    /\ result.value.primary_key = Some(<<Name, Id>>)

\* C20: TableSchema.indexes never contains an index that backs the table's
\* primary key constraint, and contains every other index of the table.
C20_NoPrimaryKeyIndex ==
    SchemaReturned =>
        LET listed == db.tables[call.table].indexes
            names == {result.value.indexes[k].name : k \in 1..Len(result.value.indexes)}
        IN \A k \in 1..Len(listed) :
             listed[k].name \in names <=> listed[k].origin # "pk"

\* C28: in every IndexInfo of a returned TableSchema, unique is true iff
\* the index enforces uniqueness in the backend; a non-unique index whose
\* name contains the letters "unique" is reported with unique = false.
C28_UniqueFlag ==
    SchemaReturned =>
        LET listed == db.tables[call.table].indexes
            indexes == result.value.indexes
        IN \A k \in 1..Len(indexes) :
             \A j \in 1..Len(listed) :
                listed[j].name = indexes[k].name =>
                    (indexes[k].unique <=> listed[j].unique)

\* C25: for every offset in the u64 range, the OFFSET value that get_rows
\* hands to the backend is numerically the caller's offset: it is neither
\* clamped nor turned into a negative or smaller number by a conversion.
C25_OffsetPassedThrough ==
    call.op = "get_rows" =>
        \A k \in 1..Len(sent) :
            sent[k].kind = "select" =>
                sent[k].offset = [neg |-> FALSE, mag |-> call.query.offset]

\* the result the provider gave to the handler of the call in progress
ProviderResult ==
    IF call.op = "get_rows_handler"
    THEN get_rows(backend, overflow_checks, db, call.table, Handler_cap(call.query), call.ord).result
    ELSE IF call.op = "count_rows_handler"
    THEN count_rows(backend, db, call.table, call.query, call.ord).result
    ELSE get_table_schema(backend, db, call.table).result

StatusOfKind(op, type) ==
    IF type = "TableNotFound" THEN 404
    ELSE IF type = "InvalidColumn" THEN 400
    ELSE IF type = "Timeout" /\ op = "get_rows_handler" THEN 408
    ELSE 500

\* C30: the HTTP status of get_rows_handler, count_rows_handler and
\* get_table_schema_handler is determined by the kind of the provider's
\* error alone: 404 for TableNotFound, 400 for InvalidColumn, 408 for
\* Timeout (rows handler), 500 for every other error, whatever table name,
\* column name or backend message the error carries.
C30_StatusByErrorKind ==
    (/\ call.op \in {"get_rows_handler", "count_rows_handler", "get_table_schema_handler"}
     /\ result.kind = "response"
     /\ ProviderResult.kind = "err")
        => result.status = StatusOfKind(call.op, ProviderResult.error.type)

(***************************************************************************)
(* list_tables.  The catalog the provider reads lists every object of the  *)
(* database: tables and views from db.tables, and the indexes of each.     *)
(***************************************************************************)
S_LIST_COUNT == <<"S", "E", "L", "E", "C", "T", " ", "C", "O", "U", "N", "T", "(", "*", ")", " ",
                  "a", "s", " ", "c", "o", "u", "n", "t", " ", "F", "R", "O", "M", " ">>

\* the characters of object names, in the order of their codes
NameChars == <<"_", "a", "b", "c", "d", "e", "f", "g", "h", "i", "j", "k", "l", "m",
               "n", "o", "p", "q", "r", "s", "t", "u", "v", "w", "x", "y", "z">>

CharRank(ch) == CHOOSE k \in 1..Len(NameChars) : NameChars[k] = ch

RECURSIVE TextLess(_, _)
TextLess(a, b) ==
    IF b = <<>> THEN FALSE
    ELSE IF a = <<>> THEN TRUE
    ELSE IF Head(a) = Head(b) THEN TextLess(Tail(a), Tail(b))
    ELSE CharRank(Head(a)) < CharRank(Head(b))

\* ORDER BY name
RECURSIVE OrderByName(_)
OrderByName(names) ==
    IF names = {} THEN <<>>
    ELSE LET first == CHOOSE name \in names : \A other \in names \ {name} : TextLess(name, other)
         IN <<first>> \o OrderByName(names \ {first})

\* sqlite_master: one row per table, view and index
Backend_sqlite_master(d) ==
    {[type |-> d.tables[t].type, name |-> t] : t \in DOMAIN d.tables}
    \cup UNION {{[type |-> "index", name |-> d.tables[t].indexes[k].name] :
                    k \in 1..Len(d.tables[t].indexes)} : t \in DOMAIN d.tables}

\* SELECT name FROM sqlite_master WHERE type='table' AND name NOT LIKE
\* 'sqlite_%' ORDER BY name
Backend_sqlite_tables(d) ==
    OrderByName({row.name : row \in {r \in Backend_sqlite_master(d) :
                                        r.type = "table" /\ ~Like(SQLITE_PATTERN, r.name)}})

\* SELECT table_name FROM information_schema.tables WHERE table_schema =
\* 'public' AND table_type = 'BASE TABLE' ORDER BY table_name
Backend_information_schema_tables(d) ==
    OrderByName({t \in DOMAIN d.tables :
                    d.tables[t].schema = S_PUBLIC /\ d.tables[t].type = "table"})

List_count_statement(b, name) ==
    [kind |-> "count",
     text |-> S_LIST_COUNT \o quote_identifier(b, name),
     params |-> <<>>,
     table |-> name,
     conditions |-> <<>>]

\* mutant: a failed count is reported as a count of 0
Sqlite_row_count_Zero(counted) ==
    IF counted.ok THEN Some(Big(counted.count)) ELSE Some(Big(0))

\* .fetch_one(&self.pool).await.ok().map(|count: i64| count as u64)
Sqlite_row_count(counted) ==
    IF counted.ok THEN Some(Big(counted.count)) ELSE None

Postgres_row_count(counted) ==
    IF counted.ok THEN Some(Big(counted.count)) ELSE None

Sqlite_list_tables(d) ==
    LET names == Backend_sqlite_tables(d)
        count_query(k) == List_count_statement("sqlite", names[k])
    IN [sent |-> <<[kind |-> "tables", params |-> <<>>]>>
                     \o [k \in 1..Len(names) |-> count_query(k)],
        result |-> Ok([k \in 1..Len(names) |->
                          [name |-> names[k],
                           row_count |-> Sqlite_row_count(
                               BackendCount("sqlite", d, count_query(k)))]])]

Postgres_list_tables(d) ==
    LET names == Backend_information_schema_tables(d)
        count_query(k) == List_count_statement("postgres", names[k])
    IN [sent |-> <<[kind |-> "tables", params |-> <<>>]>>
                     \o [k \in 1..Len(names) |-> count_query(k)],
        result |-> Ok([k \in 1..Len(names) |->
                          [name |-> names[k],
                           row_count |-> Postgres_row_count(
                               BackendCount("postgres", d, count_query(k)))]])]

list_tables(b, d) ==
    IF b = "sqlite" THEN Sqlite_list_tables(d) ELSE Postgres_list_tables(d)

(***************************************************************************)
(* SpecTables: list_tables and the table-addressed operations over         *)
(* databases that hold, next to users, any of: a second table the          *)
(* connected user may or may not read, a view, a user table whose name     *)
(* starts with the letters sqlite, and an internal table of the backend.   *)
(***************************************************************************)
Orders_ == <<"o", "r", "d", "e", "r", "s">>

ActiveUsers == <<"a", "c", "t", "i", "v", "e", "_", "u", "s", "e", "r", "s">>

SqliteData == <<"s", "q", "l", "i", "t", "e", "d", "a", "t", "a">>

SqliteSequence == <<"s", "q", "l", "i", "t", "e", "_", "s", "e", "q", "u", "e", "n", "c", "e">>

PgClass == <<"p", "g", "_", "c", "l", "a", "s", "s">>

S_PG_CATALOG == <<"p", "g", "_", "c", "a", "t", "a", "l", "o", "g">>

S_SQLITE_PREFIX == <<"s", "q", "l", "i", "t", "e", "_">>

Object(type, schema, readable, rows, indexes) ==
    [type |-> type, schema |-> schema, readable |-> readable, rows |-> rows,
     columns |-> UsersColumns, foreign_keys |-> <<>>, indexes |-> indexes]

\* the internal table of the backend
InternalTable(b) == IF b = "sqlite" THEN SqliteSequence ELSE PgClass

InternalObject(b) ==
    Object("table", IF b = "sqlite" THEN S_MAIN ELSE S_PG_CATALOG, TRUE, 1, <<>>)

OptionalObjects(b) ==
    {<<Orders_, Object("table", S_PUBLIC, TRUE, SmallTable - 1, <<>>)>>,
     <<Orders_, Object("table", S_PUBLIC, FALSE, SmallTable - 1, <<>>)>>,
     <<ActiveUsers, Object("view", S_PUBLIC, TRUE, SmallTable, <<>>)>>,
     <<SqliteData, Object("table", S_PUBLIC, TRUE, 1, <<>>)>>,
     <<InternalTable(b), InternalObject(b)>>}

UsersObject ==
    Object("table", S_PUBLIC, TRUE, SmallTable,
           <<[name |-> IndexName, unique |-> FALSE, origin |-> "c", columns |-> <<Name>>]>>)

TablesDatabases(b) ==
    {[tables |-> [t \in {Users} \cup {pair[1] : pair \in chosen} |->
                     IF t = Users THEN UsersObject
                     ELSE (CHOOSE pair \in chosen : pair[1] = t)[2]]] :
        chosen \in {S \in SUBSET OptionalObjects(b) :
                       \A p, q \in S : p[1] = q[1] => p = q}}

\* the names the table-addressed operations are called with
AddressedTables(b) ==
    {Users, Ghost, Orders_, ActiveUsers, SqliteData, InternalTable(b), IndexName}

PlainQuery ==
    [offset |-> Big(0), limit |-> Big(SmallLimit), sort_by |-> None, sort_order |-> None,
     filters |-> <<>>]

InitTables ==
    /\ backend \in Backends
    /\ overflow_checks = FALSE
    /\ db \in TablesDatabases(backend)
    /\ call = NoCall
    /\ sent = <<>>
    /\ result = NoResult

ListTables ==
    /\ call = NoCall
    /\ \E outcome \in {list_tables(backend, db)} :
        /\ call' = [op |-> "list_tables"]
        /\ sent' = outcome.sent
        /\ result' = outcome.result
    /\ UNCHANGED <<backend, overflow_checks, db>>

SchemaOfTable ==
    /\ call = NoCall
    /\ \E table \in AddressedTables(backend) :
       \E outcome \in {get_table_schema(backend, db, table)} :
        /\ call' = [op |-> "get_table_schema", table |-> table]
        /\ sent' = outcome.sent
        /\ result' = outcome.result
    /\ UNCHANGED <<backend, overflow_checks, db>>

RowsOfTable ==
    /\ call = NoCall
    /\ \E table \in AddressedTables(backend) :
       \E outcome \in {get_rows(backend, overflow_checks, db, table, PlainQuery, <<>>)} :
        /\ call' = [op |-> "get_rows", table |-> table, query |-> PlainQuery, ord |-> <<>>]
        /\ sent' = outcome.sent
        /\ result' = outcome.result
    /\ UNCHANGED <<backend, overflow_checks, db>>

CountOfTable ==
    /\ call = NoCall
    /\ \E table \in AddressedTables(backend) :
       \E outcome \in {count_rows(backend, db, table, PlainQuery, <<>>)} :
        /\ call' = [op |-> "count_rows", table |-> table, query |-> PlainQuery, ord |-> <<>>]
        /\ sent' = outcome.sent
        /\ result' = outcome.result
    /\ UNCHANGED <<backend, overflow_checks, db>>

NextTables ==
    \/ ListTables
    \/ SchemaOfTable
    \/ RowsOfTable
    \/ CountOfTable
    \/ Return

SpecTables == InitTables /\ [][NextTables]_vars

(***************************************************************************)
(* Claims about list_tables.                                               *)
(***************************************************************************)
\* the tables of the backend itself: in SQLite the tables whose name
\* starts with sqlite_, in PostgreSQL the tables outside the public schema
SystemTable(b, d, table) ==
    IF b = "sqlite" THEN StartsWith(table, S_SQLITE_PREFIX)
    ELSE d.tables[table].schema # S_PUBLIC

UserBaseTables(b, d) ==
    {t \in DOMAIN d.tables : d.tables[t].type = "table" /\ ~SystemTable(b, d, t)}

ListReturned == call.op = "list_tables" /\ result.kind = "ok"

\* C21: list_tables returns exactly the user's base tables of the default
\* schema, sorted ascending by name: every base table that is not a
\* system table appears once, whatever its name, and no system table, view
\* or index appears.
C21_ExactlyUserTables ==
    ListReturned =>
        LET tables == result.value
        IN /\ {tables[k].name : k \in 1..Len(tables)} = UserBaseTables(backend, db)
           /\ \A j, k \in 1..Len(tables) : j < k => TextLess(tables[j].name, tables[k].name)

\* C22: list_tables does not fail when the COUNT query of a table fails:
\* every table the catalog query returned is listed and counted, and
\* row_count is Some(n) exactly when the count of that table succeeded
\* with n, None when it failed.
C22_CountFailureIsNone ==
    call.op = "list_tables" =>
        /\ result.kind = "ok"
        /\ Len(result.value) = Len(sent) - 1
        /\ \A k \in 1..Len(result.value) :
             LET name == result.value[k].name
             IN /\ sent[k + 1].kind = "count" /\ sent[k + 1].table = name
                /\ result.value[k].row_count =
                     IF db.tables[name].readable THEN Some(Big(db.tables[name].rows)) ELSE None

C22_Witness ==
    /\ ListReturned
    /\ Len(result.value) >= 2
    /\ result.value[1].name = Orders_
    /\ result.value[1].row_count = None
    /\ result.value[2].row_count # None
    /\ result.value[Len(result.value)] = [name |-> Users, row_count |-> Some(Big(SmallTable))]

\* the names list_tables lists in the current database
ListedTables ==
    LET tables == list_tables(backend, db).result.value
    IN {tables[k].name : k \in 1..Len(tables)}

\* C27: get_table_schema, get_rows and count_rows agree with list_tables
\* on table existence: for a name list_tables does not list each fails
\* with TableNotFound(name), and for a listed name none fails with
\* TableNotFound.
C27_ExistenceAgreement ==
    call.op \in {"get_table_schema", "get_rows", "count_rows"} =>
        IF call.table \in ListedTables
        THEN ~(result.kind = "err" /\ result.error.type = "TableNotFound")
        ELSE result = Err("TableNotFound", call.table)

(***************************************************************************)
(* Value mapping.  A cell is what the driver holds for one column of one   *)
(* row: whether it is NULL, the type name the driver reports, the Rust     *)
(* types a typed read of it succeeds for (reads), and what each such read  *)
(* yields.  Bytes are the numbers 0..255.                                  *)
(***************************************************************************)
T_BIGINT == <<"B", "I", "G", "I", "N", "T">>

T_REAL == <<"R", "E", "A", "L">>

T_FLOAT == <<"F", "L", "O", "A", "T">>

T_DOUBLE == <<"D", "O", "U", "B", "L", "E">>

T_VARCHAR == <<"V", "A", "R", "C", "H", "A", "R">>

T_CHAR == <<"C", "H", "A", "R">>

T_CLOB == <<"C", "L", "O", "B">>

T_BLOB == <<"B", "L", "O", "B">>

T_BOOLEAN == <<"B", "O", "O", "L", "E", "A", "N">>

T_BOOL == <<"B", "O", "O", "L">>

T_DATE == <<"D", "A", "T", "E">>

T_DATETIME == <<"D", "A", "T", "E", "T", "I", "M", "E">>

T_TIMESTAMP == <<"T", "I", "M", "E", "S", "T", "A", "M", "P">>

T_INT4 == <<"I", "N", "T", "4">>

T_INT8 == <<"I", "N", "T", "8">>

T_FLOAT8 == <<"F", "L", "O", "A", "T", "8">>

T_BYTEA == <<"B", "Y", "T", "E", "A">>

T_JSON == <<"J", "S", "O", "N">>

T_UUID == <<"U", "U", "I", "D">>

T_NUMERIC == <<"N", "U", "M", "E", "R", "I", "C">>

T_POINT == <<"P", "O", "I", "N", "T">>

BASE64_CHARS ==
    <<"A", "B", "C", "D", "E", "F", "G", "H", "I", "J", "K", "L", "M",
      "N", "O", "P", "Q", "R", "S", "T", "U", "V", "W", "X", "Y", "Z",
      "a", "b", "c", "d", "e", "f", "g", "h", "i", "j", "k", "l", "m",
      "n", "o", "p", "q", "r", "s", "t", "u", "v", "w", "x", "y", "z",
      "0", "1", "2", "3", "4", "5", "6", "7", "8", "9", "+", "/">>

PreviewBytes == 64

S_ELLIPSIS == <<".", ".", ".">>

\* limited_data[i]: an index at or past the end panics
ByteAt(limited_data, i) == IF i < Len(limited_data) THEN limited_data[i + 1] ELSE -1

\* BASE64_CHARS[x as usize] as char
Base64Char(x) == BASE64_CHARS[x + 1]

\* while i + 2 < limited_data.len() { ... i += 3; }
RECURSIVE Base64_loop(_, _, _)
Base64_loop(limited_data, i, encoded) ==
    IF i + 2 < Len(limited_data)
    THEN LET b1 == ByteAt(limited_data, i)
             b2 == ByteAt(limited_data, i + 1)
             b3 == ByteAt(limited_data, i + 2)
         IN IF b1 < 0 \/ b2 < 0 \/ b3 < 0 THEN [panic |-> TRUE, i |-> i, encoded |-> encoded]
            ELSE Base64_loop(limited_data, i + 3,
                     encoded \o <<Base64Char(b1 \div 4),
                                 Base64Char(((b1 % 4) * 16) + (b2 \div 16)),
                                 Base64Char(((b2 % 16) * 4) + (b3 \div 64)),
                                 Base64Char(b3 % 64)>>)
    ELSE [panic |-> FALSE, i |-> i, encoded |-> encoded]

\* if i < limited_data.len() { ... }
Base64_remaining(limited_data, i) ==
    IF i < Len(limited_data)
    THEN LET b1 == ByteAt(limited_data, i)
             b2 == ByteAt(limited_data, i + 1)
         IN IF i + 1 < Len(limited_data)
            THEN <<Base64Char(b1 \div 4),
                   Base64Char(((b1 % 4) * 16) + (b2 \div 16)),
                   Base64Char((b2 % 16) * 4),
                   "=">>
            ELSE <<Base64Char(b1 \div 4), Base64Char((b1 % 4) * 16), "=", "=">>
    ELSE <<>>

\* mutant: the input is not limited to its first 64 bytes
Base64_limited_data_Whole(data) == data

\* let limited_data = if data.len() > 64 { &data[..64] } else { data };
Base64_limited_data(data) ==
    IF Len(data) > PreviewBytes THEN SubSeq(data, 1, PreviewBytes) ELSE data

base64_encode(data) ==
    LET limited_data == Base64_limited_data(data)
        looped == Base64_loop(limited_data, 0, <<>>)
    IN IF looped.panic THEN Panic
       ELSE Ok(looped.encoded \o Base64_remaining(limited_data, looped.i)
                   \o (IF Len(data) > PreviewBytes THEN S_ELLIPSIS ELSE <<>>))

\* serde_json::Value
JsonNull == [json |-> "null"]

JsonNumber(n) == [json |-> "number", value |-> n]

JsonString(text) == [json |-> "string", value |-> text]

JsonBool(flag) == [json |-> "bool", value |-> flag]

S_BLOB_OPEN == <<"[", "B", "L", "O", "B", ":", " ">>

S_BYTES_BASE64 == <<" ", "b", "y", "t", "e", "s", ",", " ", "b", "a", "s", "e", "6", "4", ":", " ">>

S_BYTES_CLOSE == <<" ", "b", "y", "t", "e", "s", "]">>

S_CLOSE_BRACKET == <<"]">>

\* format!("[BLOB: {} bytes, base64: {}]", value.len(), base64_string)
Sqlite_blob_string(value) ==
    LET base64_string == base64_encode(value)
    IN IF base64_string.kind = "panic" THEN Panic
       ELSE Ok(JsonString(S_BLOB_OPEN \o Decimal(Len(value)) \o S_BYTES_BASE64
                              \o base64_string.value \o S_CLOSE_BRACKET))

\* format!("[BLOB: {} bytes]", bytes.len())
Postgres_blob_string(bytes) ==
    JsonString(S_BLOB_OPEN \o Decimal(Len(bytes)) \o S_BYTES_CLOSE)

\* row.try_get::<T, _>(column_name) of a cell that is not NULL
TryGet(cell, rust_type) == rust_type \in cell.reads

\* serde_json::Number::from_f64: None for NaN and the infinities
Number_from_f64(float) == IF float.finite THEN Some(float.value) ELSE None

\* the read that the match on type_name tries: the value it returns, None
\* when the arm falls through to the probes
Sqlite_typed_read(cell) ==
    LET type_name == cell.type_name
    IN IF type_name \in {T_INTEGER, T_BIGINT}
       THEN IF TryGet(cell, "i64") THEN Some(Ok(JsonNumber(cell.int))) ELSE None
       ELSE IF type_name \in {T_REAL, T_FLOAT, T_DOUBLE}
       THEN IF TryGet(cell, "f64") /\ Number_from_f64(cell.float) # None
            THEN Some(Ok(JsonNumber(Number_from_f64(cell.float)[1]))) ELSE None
       ELSE IF type_name \in {T_TEXT, T_VARCHAR, T_CHAR, T_CLOB}
       THEN IF TryGet(cell, "String") THEN Some(Ok(JsonString(cell.text))) ELSE None
       ELSE IF type_name = T_BLOB
       THEN IF TryGet(cell, "Vec<u8>") THEN Some(Sqlite_blob_string(cell.bytes)) ELSE None
       ELSE IF type_name \in {T_BOOLEAN, T_BOOL}
       THEN IF TryGet(cell, "bool") THEN Some(Ok(JsonBool(cell.bool))) ELSE None
       ELSE IF TryGet(cell, "String") THEN Some(Ok(JsonString(cell.text))) ELSE None

\* Fallback: try common types in order
Sqlite_fallback(cell) ==
    IF TryGet(cell, "i64") THEN Ok(JsonNumber(cell.int))
    ELSE IF TryGet(cell, "f64") /\ Number_from_f64(cell.float) # None
    THEN Ok(JsonNumber(Number_from_f64(cell.float)[1]))
    ELSE IF TryGet(cell, "String") THEN Ok(JsonString(cell.text))
    ELSE IF TryGet(cell, "bool") THEN Ok(JsonBool(cell.bool))
    ELSE IF TryGet(cell, "Vec<u8>") THEN Sqlite_blob_string(cell.bytes)
    ELSE Ok(JsonNull)

Sqlite_extract_column_value(cell) ==
    IF cell.null THEN Ok(JsonNull)
    ELSE IF Sqlite_typed_read(cell) # None THEN Sqlite_typed_read(cell)[1]
    ELSE Sqlite_fallback(cell)

MSG_DECODE == <<"m", "i", "s", "m", "a", "t", "c", "h", "e", "d", " ", "t", "y", "p", "e", "s">>

\* the value of a successful read as Option<T>, mapped to JSON
Postgres_value(cell, rust_type) ==
    IF cell.null THEN JsonNull
    ELSE IF rust_type \in {"i32", "i64"} THEN JsonNumber(cell.int)
    ELSE IF rust_type = "f64"
    THEN (IF Number_from_f64(cell.float) # None
          THEN JsonNumber(Number_from_f64(cell.float)[1]) ELSE JsonNull)
    ELSE IF rust_type = "bool" THEN JsonBool(cell.bool)
    ELSE IF rust_type = "Vec<u8>" THEN Postgres_blob_string(cell.bytes)
    ELSE JsonString(cell.text)

\* let val: Option<T> = row.try_get(column_name)?;
Postgres_strict(cell, rust_type) ==
    IF cell.null \/ TryGet(cell, rust_type) THEN Ok(Postgres_value(cell, rust_type))
    ELSE From_sqlx_Error(MSG_DECODE)

\* let val: Option<String> = row.try_get(column_name).ok().flatten();
Postgres_lenient(cell) ==
    IF ~cell.null /\ TryGet(cell, "String") THEN Ok(JsonString(cell.text)) ELSE Ok(JsonNull)

\* the value of one column in row_to_json
Postgres_column_value(cell) ==
    LET type_name == cell.type_name
    IN IF type_name = T_BOOL THEN Postgres_strict(cell, "bool")
       ELSE IF type_name \in {T_INT4, T_INTEGER} THEN Postgres_strict(cell, "i32")
       ELSE IF type_name \in {T_INT8, T_BIGINT} THEN Postgres_strict(cell, "i64")
       ELSE IF type_name = T_FLOAT8 THEN Postgres_strict(cell, "f64")
       ELSE IF type_name \in {T_TEXT, T_VARCHAR, T_CHAR} THEN Postgres_strict(cell, "String")
       ELSE IF type_name = T_BYTEA THEN Postgres_strict(cell, "Vec<u8>")
       ELSE IF type_name = T_JSON THEN Postgres_strict(cell, "Value")
       ELSE Postgres_lenient(cell)

column_value(b, cell) ==
    IF b = "sqlite" THEN Sqlite_extract_column_value(cell) ELSE Postgres_column_value(cell)

(***************************************************************************)
(* SpecValues: base64_encode applied to byte sequences up to two bytes     *)
(* past the preview, and the value mapping applied to every cell below.    *)
(***************************************************************************)
MaxBytes == 66

ShortBytes == 3

Pattern(n, seed, step) == [i \in 1..n |-> (seed + (step * (i - 1))) % 256]

PatternSeeds == {0, 251}

PatternSteps == {1, 37}

Patterns == {Pattern(n, seed, step) : n \in 0..MaxBytes, seed \in PatternSeeds, step \in PatternSteps}

\* the same bytes with another last byte
OtherTail(data) == IF data = <<>> THEN data ELSE [data EXCEPT ![Len(data)] = 255 - data[Len(data)]]

ByteStrings ==
    SeqsUpTo({0, 77, 255}, ShortBytes) \cup Patterns \cup {OtherTail(data) : data \in Patterns}

CoreTypes == {"i64", "f64", "String", "bool", "Vec<u8>"}

ReadTypes(b) == IF b = "sqlite" THEN CoreTypes ELSE CoreTypes \cup {"i32", "Value"}

TypeNames(b) ==
    IF b = "sqlite"
    THEN {T_INTEGER, T_REAL, T_TEXT, T_BLOB, T_BOOLEAN, T_DATETIME, T_NUMERIC}
    ELSE {T_BOOL, T_INT4, T_INT8, T_FLOAT8, T_TEXT, T_BYTEA, T_JSON, T_TIMESTAMP, T_UUID, T_POINT}

\* int is the integer read; float.value is the float read, in tenths
CellOf(null, type_name, reads, finite, bytes) ==
    [null |-> null, type_name |-> type_name, reads |-> reads,
     int |-> 7, float |-> [finite |-> finite, value |-> 15], text |-> V_AB,
     bool |-> TRUE, bytes |-> bytes]

Cells(b) ==
    {CellOf(FALSE, type_name, reads, TRUE, <<0, 77, 255>>) :
        type_name \in TypeNames(b), reads \in SUBSET ReadTypes(b)}
    \cup {CellOf(TRUE, type_name, {}, TRUE, <<>>) : type_name \in TypeNames(b)}
    \cup {CellOf(FALSE, type_name, {"Vec<u8>"}, TRUE, bytes) :
             type_name \in {T_BLOB, T_BYTEA} \cap TypeNames(b), bytes \in ByteStrings}
    \cup {CellOf(FALSE, type_name, reads, FALSE, <<>>) :
             type_name \in {T_REAL, T_FLOAT8, T_TEXT} \cap TypeNames(b),
             reads \in {{"f64"}, {"f64", "String"}}}

InitValues ==
    /\ backend \in Backends
    /\ overflow_checks = FALSE
    /\ db = NoDb
    /\ call = NoCall
    /\ sent = <<>>
    /\ result = NoResult

Base64Encode ==
    /\ call = NoCall
    /\ \E data \in ByteStrings :
        /\ call' = [op |-> "base64_encode", data |-> data]
        /\ result' = base64_encode(data)
    /\ UNCHANGED <<backend, overflow_checks, db, sent>>

ColumnValue ==
    /\ call = NoCall
    /\ \E cell \in Cells(backend) :
        /\ call' = [op |-> "column_value", cell |-> cell]
        /\ result' = column_value(backend, cell)
    /\ UNCHANGED <<backend, overflow_checks, db, sent>>

NextValues ==
    \/ Base64Encode
    \/ ColumnValue
    \/ Return

SpecValues == InitValues /\ [][NextValues]_vars

(***************************************************************************)
(* Claims about the value mapping.                                         *)
(***************************************************************************)
\* RFC 4648: the bits of the input, most significant first, in groups of
\* six (the last group filled with zero bits), each group a character of
\* the alphabet, then = up to a multiple of four characters
StandardAlphabet == UpperCase \o LowerCase \o Digits \o <<"+", "/">>

BitAt(data, p) ==
    IF p < 8 * Len(data) THEN (data[(p \div 8) + 1] \div (2 ^ (7 - (p % 8)))) % 2 ELSE 0

SextetAt(data, g) ==
    (32 * BitAt(data, 6 * g)) + (16 * BitAt(data, (6 * g) + 1)) + (8 * BitAt(data, (6 * g) + 2))
        + (4 * BitAt(data, (6 * g) + 3)) + (2 * BitAt(data, (6 * g) + 4)) + BitAt(data, (6 * g) + 5)

StandardBase64(data) ==
    LET groups == ((8 * Len(data)) + 5) \div 6
    IN [g \in 1..groups |-> StandardAlphabet[SextetAt(data, g - 1) + 1]]
           \o [k \in 1..((4 - (groups % 4)) % 4) |-> "="]

Preview(data) == IF Len(data) > 64 THEN SubSeq(data, 1, 64) ELSE data

\* C29: base64_encode of n bytes returns, for n <= 64, the standard padded
\* base64 encoding of the bytes (4 * ceil(n / 3) characters of A-Z, a-z,
\* 0-9, +, /, =) and, for n > 64, the standard encoding of the first 64
\* bytes followed by "..."; it returns for every input and never reads
\* past the end of the limited input.
C29_Base64 ==
    call.op = "base64_encode" =>
        LET data == call.data
            n == Len(data)
        IN /\ result.kind = "ok"
           /\ n <= 64 =>
                /\ result.value = StandardBase64(data)
                /\ Len(result.value) = 4 * ((n + 2) \div 3)
                /\ \A k \in 1..Len(result.value) :
                     \/ result.value[k] = "="
                     \/ \E c \in 1..Len(StandardAlphabet) : StandardAlphabet[c] = result.value[k]
           /\ n > 64 => result.value = StandardBase64(SubSeq(data, 1, 64)) \o <<".", ".", ".">>

C29_Witness ==
    /\ call.op = "base64_encode"
    /\ Len(call.data) = 66
    /\ result.kind = "ok"
    /\ Len(result.value) = 88 + 3
    /\ SubSeq(result.value, 87, 91) = <<"=", "=", ".", ".", ".">>
    /\ call.data[65] # call.data[1]

\* C23: on both backends a non-null binary cell of n bytes is rendered as
\* a string that states n and carries the encoded preview of the first
\* min(n, 64) bytes only, with a truncation marker iff n > 64.
C23_BinaryPreview ==
    (/\ call.op = "column_value"
     /\ ~call.cell.null
     /\ call.cell.type_name \in {T_BLOB, T_BYTEA}
     /\ "Vec<u8>" \in call.cell.reads)
        => LET bytes == call.cell.bytes
           IN /\ result.kind = "ok"
              /\ result.value.json = "string"
              /\ ContainsText(result.value.value, Decimal(Len(bytes)))
              /\ ContainsText(result.value.value, StandardBase64(Preview(bytes)))
              /\ Len(bytes) > 64 <=> ContainsText(result.value.value, <<".", ".", ".">>)
              /\ Len(bytes) > 64 =>
                   ~ContainsText(result.value.value, StandardBase64(SubSeq(bytes, 1, 65)))

\* the Rust type of the read that the reported type name selects
TypedRead(b, type_name) ==
    IF b = "sqlite"
    THEN IF type_name \in {T_INTEGER, T_BIGINT} THEN "i64"
         ELSE IF type_name \in {T_REAL, T_FLOAT, T_DOUBLE} THEN "f64"
         ELSE IF type_name = T_BLOB THEN "Vec<u8>"
         ELSE IF type_name \in {T_BOOLEAN, T_BOOL} THEN "bool"
         ELSE "String"
    ELSE IF type_name = T_BOOL THEN "bool"
         ELSE IF type_name \in {T_INT4, T_INTEGER} THEN "i32"
         ELSE IF type_name \in {T_INT8, T_BIGINT} THEN "i64"
         ELSE IF type_name = T_FLOAT8 THEN "f64"
         ELSE IF type_name = T_BYTEA THEN "Vec<u8>"
         ELSE IF type_name = T_JSON THEN "Value"
         ELSE "String"

\* a read of the cell as the Rust type yields a JSON value
ReadSucceeds(cell, rust_type) ==
    /\ rust_type \in cell.reads
    /\ rust_type = "f64" => cell.float.finite

\* C24: a NULL cell maps to null; for a non-null cell whose typed read,
\* chosen from the reported type name, fails, the mapper tries integer,
\* float, text, boolean, binary in that order, returns the first that
\* succeeds and null if all fail; a failed typed read never makes the
\* conversion fail.
C24_ProbeOrder ==
    call.op = "column_value" =>
        LET cell == call.cell
        IN /\ result.kind = "ok"
           /\ cell.null => result = Ok(JsonNull)
           /\ (~cell.null /\ ~ReadSucceeds(cell, TypedRead(backend, cell.type_name))) =>
                IF ReadSucceeds(cell, "i64") THEN result = Ok(JsonNumber(cell.int))
                ELSE IF ReadSucceeds(cell, "f64") THEN result = Ok(JsonNumber(cell.float.value))
                ELSE IF ReadSucceeds(cell, "String") THEN result = Ok(JsonString(cell.text))
                ELSE IF ReadSucceeds(cell, "bool") THEN result = Ok(JsonBool(cell.bool))
                ELSE IF ReadSucceeds(cell, "Vec<u8>") THEN result.value.json = "string"
                ELSE result = Ok(JsonNull)

(***************************************************************************)
(* SpecConcurrent: one get_rows call, one awaited statement per step,      *)
(* while other clients run INSERT and DELETE statements through            *)
(* execute_query on the same pool.  The call keeps what it has read so     *)
(* far: total from the COUNT statement, rows from the SELECT statement.    *)
(* SQLite awaits the table check, the COUNT, then the SELECT; PostgreSQL   *)
(* the schema, the SELECT, then the COUNT.                                 *)
(***************************************************************************)
ConcurrentQueries ==
    {query \in RowQueries :
        /\ query.offset \in {Big(0), Big(SmallOffset)}
        /\ query.limit \in {Big(SmallLimit), Big(MAX_LIMIT + 1)}
        /\ query.sort_by = None
        /\ query.sort_order = None
        /\ DOMAIN query.filters = {}}

WhereClause(b, query, ord) ==
    IF b = "sqlite" THEN Sqlite_build_where_clause(query.filters, ord)
    ELSE Postgres_build_where_clause(query.filters, ord, 1)

CountStatement(b, table, query, ord) ==
    IF b = "sqlite" THEN Sqlite_count_statement(table, WhereClause(b, query, ord))
    ELSE Postgres_count_rows(NoDb, table, query, ord).sent[1]

SelectStatement(b, table, query, ord) ==
    IF b = "sqlite"
    THEN Sqlite_select_statement(table, WhereClause(b, query, ord),
                                 Sqlite_build_order_clause(query.sort_by, query.sort_order),
                                 Sqlite_effective_limit(query.limit), query.offset)
    ELSE Postgres_select_statement(table, WhereClause(b, query, ord),
                                   Postgres_order_clause(query.sort_by, query.sort_order),
                                   Postgres_effective_limit(query.limit), query.offset)

\* the statement awaited after the one at pc
NextStep(b, pc) ==
    IF b = "sqlite"
    THEN (IF pc = "check" THEN "count" ELSE IF pc = "count" THEN "select" ELSE "respond")
    ELSE (IF pc = "check" THEN "select" ELSE IF pc = "select" THEN "count" ELSE "respond")

InitConcurrent ==
    /\ backend \in Backends
    /\ overflow_checks = FALSE
    /\ db = DbOf(SmallTable)
    /\ call = NoCall
    /\ sent = <<>>
    /\ result = NoResult

BeginGetRows ==
    /\ call = NoCall
    /\ \E query \in ConcurrentQueries :
        call' = [op |-> "get_rows", table |-> Users, query |-> query, ord |-> <<>>,
                 pc |-> "check", total |-> Big(0), rows |-> <<>>, read_from |-> 0]
    /\ sent' = <<>>
    /\ result' = Pending
    /\ UNCHANGED <<backend, overflow_checks, db>>

\* the table check (SQLite) or the schema lookup (PostgreSQL)
AwaitTableCheck ==
    /\ call.op = "get_rows" /\ result = Pending /\ call.pc = "check"
    /\ LET found == IF backend = "sqlite" THEN Backend_table_exists(db, call.table)
                    ELSE Backend_columns(db, call.table) # <<>>
       IN IF found
          THEN /\ call' = [call EXCEPT !.pc = NextStep(backend, "check")]
               /\ result' = result
          ELSE /\ call' = [call EXCEPT !.pc = "done"]
               /\ result' = Err("TableNotFound", call.table)
    /\ sent' = Append(sent, [kind |-> "check", table |-> call.table])
    /\ UNCHANGED <<backend, overflow_checks, db>>

AwaitCount ==
    /\ call.op = "get_rows" /\ result = Pending /\ call.pc = "count"
    /\ LET statement == CountStatement(backend, call.table, call.query, call.ord)
       IN \E counted \in {BackendCount(backend, db, statement)} :
           /\ sent' = Append(sent, statement)
           /\ IF counted.ok
              THEN /\ call' = [call EXCEPT !.pc = NextStep(backend, "count"),
                                           !.total = Big(counted.count)]
                   /\ result' = result
              ELSE /\ call' = [call EXCEPT !.pc = "done"]
                   /\ result' = From_sqlx_Error(counted.message)
    /\ UNCHANGED <<backend, overflow_checks, db>>

AwaitSelect ==
    /\ call.op = "get_rows" /\ result = Pending /\ call.pc = "select"
    /\ LET statement == SelectStatement(backend, call.table, call.query, call.ord)
       IN \E fetched \in {BackendSelect(backend, db, statement)} :
           /\ sent' = Append(sent, statement)
           /\ IF fetched.ok
              THEN /\ call' = [call EXCEPT !.pc = NextStep(backend, "select"),
                                           !.rows = fetched.rows,
                                           !.read_from = db.tables[call.table].rows]
                   /\ result' = result
              ELSE /\ call' = [call EXCEPT !.pc = "done"]
                   /\ result' = From_sqlx_Error(fetched.message)
    /\ UNCHANGED <<backend, overflow_checks, db>>

\* let has_more = ...; Ok(RowsResponse { .. })
Respond ==
    /\ call.op = "get_rows" /\ result = Pending /\ call.pc = "respond"
    /\ \E has_more \in {HasMore(overflow_checks, call.query.offset, Len(call.rows), call.total)} :
        result' = IF has_more.kind = "panic" THEN Panic
                  ELSE Ok([rows |-> call.rows, columns |-> TableColumns, total |-> call.total,
                           offset |-> call.query.offset,
                           limit |-> IF backend = "sqlite"
                                     THEN Sqlite_effective_limit(call.query.limit)
                                     ELSE Postgres_effective_limit(call.query.limit),
                           has_more |-> has_more.value])
    /\ call' = [call EXCEPT !.pc = "done"]
    /\ UNCHANGED <<backend, overflow_checks, db, sent>>

\* another client's execute_query of an INSERT or a DELETE completes
ConcurrentWrite ==
    /\ \E sql \in {SQL_INSERT, SQL_DELETE} :
       \E outcome \in BackendRun(backend, db, sql, execute_query_path(backend, sql)) :
        /\ outcome.db # db
        /\ db' = outcome.db
    /\ UNCHANGED <<backend, overflow_checks, call, sent, result>>

NextConcurrent ==
    \/ BeginGetRows
    \/ AwaitTableCheck
    \/ AwaitCount
    \/ AwaitSelect
    \/ Respond
    \/ ConcurrentWrite
    \/ Return

SpecConcurrent == InitConcurrent /\ [][NextConcurrent]_vars

\* C26: every RowsResponse of get_rows is consistent with a single
\* database state, also when raw INSERT and DELETE statements run between
\* its statements: offset + len(rows) <= total whenever rows is non-empty,
\* and has_more = false implies that no row lies beyond offset + len(rows)
\* in the state the rows were read from.
C26_SingleState ==
    (call.op = "get_rows" /\ result.kind = "ok") =>
        LET response == result.value
            reached == BigAdd(response.offset, Big(Len(response.rows)))
        IN /\ response.rows # <<>> => ~BigLess(response.total, reached)
           /\ ~response.has_more => ~BigLess(reached, Big(call.read_from))

====
